---- MODULE Spec2Model ----
(***************************************************************************)
(* State-machine model of the authentication and session core of           *)
(* maearth-demo: the signed session store (lib/session.ts), the CSRF token *)
(* codec (lib/csrf.ts), the token-bucket rate limiter (lib/ratelimit.ts),  *)
(* the two-factor configuration and the request handlers that compose them.*)
(*                                                                         *)
(* Strings are sequences of one-character strings.  Time is Date.now() in  *)
(* milliseconds.  Each subsystem has its own specification (SessSpec,      *)
(* SignSpec, CsrfSpec, RlSpec, RlMixSpec, AppSpec, TwofaSpec, ParSpec) over *)
(* the shared variables.                                                   *)
(***************************************************************************)
EXTENDS Integers, Sequences, FiniteSets, TLC

VARIABLES
  now,          \* Date.now()
  sessions,     \* session.ts: the sessions Map, raw ID -> record
  cleanupTimer, \* session.ts: cleanupTimer is set
  sessTimers,   \* how many interval timers session.ts has started
  usedIds,      \* raw IDs crypto.randomBytes has already produced
  issued,       \* history: what each create call stored and the signed ID it returned
  deleted,      \* history: the signed IDs a delete call was made with that verified
  lastOp,       \* the last session-store call: its name and the signed ID passed or returned
  sgId, sgStr, sgHow, sgRes,   \* sign / verifySignedId applied to drawn inputs
  csrfIssued,   \* history: CSRF token -> time generateCsrfToken produced it
  csrfLast,     \* the last validateCsrfToken call and its outcome
  buckets,      \* ratelimit.ts: the buckets Map, key -> [tokens, lastRefill]
  rlTimer,      \* ratelimit.ts: cleanupTimer, with the windowMs its closure captured and when it fires next
  rlTimers,     \* how many interval timers ratelimit.ts has started
  rlHist,       \* history per key: calls since the bucket was created / last found a full window elapsed
  rlBurst,      \* history per key: calls allowed since the clock last advanced
  rlLast,       \* the last checkRateLimit call and what it returned
  twofa,        \* the persisted two-factor configuration per user DID
  pending,      \* the pending email code per user DID
  passkeys,     \* the user DIDs with stored passkey credentials
  cookie,       \* the browser's session_id cookie
  disableCalls, \* history: how many requests the disable handler has served
  signedOut,    \* history: cookie values that were current when signOut completed
  appLast,      \* the last request handled and its response
  tfLast,       \* the last operation on a persisted two-factor configuration
  disReqs,      \* the disable requests that passed their checks: the configuration
                \* each read, the method it removes and whether it has finished
  loginReq,     \* the login request being served: its position, the DPoP proofs it
                \* submitted, the PAR responses it received and how it ended
  uuids,        \* how many values crypto.randomUUID has produced
  fnLast,       \* the last call of a library function on drawn inputs, and its result
  txReqs,       \* the send-transaction requests in flight: the await each is suspended at
  dailyTotals,  \* send-transaction: the dailyTotals Map, DID -> [total, date]
  txAccepted,   \* history: per DID, the day and the sum of the amounts the wallet service accepted on it
  txLast,       \* the last send-transaction response
  ui,           \* TwoFactorSetup: the component's state (useState values)
  uiReqs,       \* TwoFactorSetup: the handler calls suspended at an await
  uiLast        \* TwoFactorSetup: the last handler call that settled

sessVars == <<sessions, cleanupTimer, sessTimers, usedIds, issued, deleted, lastOp>>
signVars == <<sgId, sgStr, sgHow, sgRes>>
csrfVars == <<csrfIssued, csrfLast>>
rlVars   == <<buckets, rlTimer, rlTimers, rlHist, rlBurst, rlLast>>
appVars  == <<twofa, pending, passkeys, cookie, disableCalls, signedOut, appLast>>
tfVars   == <<tfLast, disReqs>>
parVars  == <<loginReq, uuids>>
fnVars   == <<fnLast>>
txVars   == <<txReqs, dailyTotals, txAccepted, txLast>>
uiVars   == <<ui, uiReqs, uiLast>>
pureVars == <<signVars, tfVars, parVars, fnVars, txVars, uiVars>>
vars == <<now, sessVars, signVars, csrfVars, rlVars, appVars, tfVars, parVars, fnVars, txVars,
          uiVars>>

\* What the calls of one subsystem leave alone.
nonCsrfVars == <<sessVars, pureVars, rlVars, appVars>>
nonRlVars == <<sessVars, pureVars, csrfVars, appVars>>
nonSessVars == <<pureVars, csrfVars, rlVars, appVars>>
nonSignVars == <<now, sessVars, csrfVars, rlVars, appVars, tfVars, parVars, fnVars, txVars,
  uiVars>>
nonTwofaVars == <<now, sessVars, signVars, csrfVars, rlVars, parVars, fnVars, txVars,
  uiVars>>
nonParVars == <<now, sessVars, signVars, csrfVars, rlVars, appVars, tfVars, fnVars, txVars,
  uiVars>>
nonFnVars == <<now, sessVars, signVars, csrfVars, rlVars, appVars, tfVars, parVars, txVars,
  uiVars>>
nonTxVars == <<sessVars, signVars, csrfVars, appVars, tfVars, parVars, fnVars,
  uiVars>>
nonUiVars == <<now, sessVars, signVars, csrfVars, rlVars, appVars, tfVars, parVars, fnVars, txVars>>

\* The clock values reachable from 0 in at most n steps drawn from `steps`.
RECURSIVE TimesWithin(_, _)
TimesWithin(steps, n) ==
  IF n = 0 THEN {0}
  ELSE LET prev == TimesWithin(steps, n - 1)
       IN prev \cup {t + d : t \in prev, d \in steps}

None == [some |-> FALSE]
Some(v) == [some |-> TRUE, val |-> v]

(***************************************************************************)
(* Strings                                                                 *)
(***************************************************************************)
Digits36 == <<"0","1","2","3","4","5","6","7","8","9","a","b","c","d","e","f","g","h",
              "i","j","k","l","m","n","o","p","q","r","s","t","u","v","w","x","y","z">>

\* "U+00E9" stands for one character outside ASCII: one UTF-16 unit, two UTF-8 bytes.
Alphabet == Digits36 \o <<".", "-", "_", "U+00E9">>

CharCode(c) == CHOOSE i \in 1..Len(Alphabet) : Alphabet[i] = c

\* String.prototype.length counts UTF-16 units; Buffer.from(s).length counts UTF-8 bytes.
RECURSIVE ByteLength(_)
ByteLength(s) ==
  IF s = <<>> THEN 0
  ELSE (IF Head(s) = "U+00E9" THEN 2 ELSE 1) + ByteLength(Tail(s))

\* String.prototype.lastIndexOf, 1-based; 0 stands for JavaScript's -1.
LastIndexOf(s, c) ==
  LET hits == {i \in 1..Len(s) : s[i] = c}
  IN IF hits = {} THEN 0 ELSE CHOOSE i \in hits : \A j \in hits : j <= i

\* String.prototype.split on a one-character separator.
RECURSIVE SplitFrom(_, _, _)
SplitFrom(s, c, cur) ==
  IF s = <<>> THEN <<cur>>
  ELSE IF Head(s) = c THEN <<cur>> \o SplitFrom(Tail(s), c, <<>>)
  ELSE SplitFrom(Tail(s), c, Append(cur, Head(s)))
Split(s, c) == SplitFrom(s, c, <<>>)

(***************************************************************************)
(* HMAC-SHA256 with digest("base64url"): a keyed polynomial hash modulo a  *)
(* prime, written as HmacLen characters of the base64url alphabet.  Like   *)
(* the real MAC the tag has a fixed length, holds no '.', depends on the   *)
(* key and changes whenever one character of the message is substituted.   *)
(***************************************************************************)
HashBase == 41
HashMod == 251
HmacLen == 4
TagChars == <<"a", "b", "c", "d">>

SESSION_SECRET == 1
CSRF_SECRET == 2

RECURSIVE PolyHash(_, _)
PolyHash(s, h) ==
  IF s = <<>> THEN h
  ELSE PolyHash(Tail(s), (h * HashBase + CharCode(Head(s))) % HashMod)

RECURSIVE Pow(_, _)
Pow(b, e) == IF e = 0 THEN 1 ELSE b * Pow(b, e - 1)

ToTag(n) ==
  [i \in 1..HmacLen |->
     TagChars[((n \div Pow(Len(TagChars), HmacLen - i)) % Len(TagChars)) + 1]]

Hmac(secret, s) == ToTag(PolyHash(s, secret))

\* crypto.timingSafeEqual on Buffer.from(a), Buffer.from(b): throws a RangeError
\* when the byte lengths differ, else tells whether the bytes are equal.
TimingSafeEqual(a, b) ==
  IF ByteLength(a) # ByteLength(b) THEN "throws"
  ELSE IF a = b THEN "equal" ELSE "differ"

(***************************************************************************)
(* session.ts: signing                                                     *)
(***************************************************************************)
sign(sessionId) == sessionId \o <<".">> \o Hmac(SESSION_SECRET, sessionId)

\* verifySignedId splitting on the first '.' (indexOf for lastIndexOf).
verifySignedId_FirstDot(signed) ==
  LET dots == {i \in 1..Len(signed) : signed[i] = "."}
      dotIndex == IF dots = {} THEN 0 ELSE CHOOSE i \in dots : \A j \in dots : i <= j
  IN
  IF dotIndex = 0 THEN None
  ELSE LET sessionId == SubSeq(signed, 1, dotIndex - 1)
           providedHmac == SubSeq(signed, dotIndex + 1, Len(signed))
           expectedHmac == Hmac(SESSION_SECRET, sessionId)
       IN IF ByteLength(providedHmac) # ByteLength(expectedHmac)
             \/ TimingSafeEqual(providedHmac, expectedHmac) # "equal"
          THEN None
          ELSE Some(sessionId)

verifySignedId(signed) ==
  LET dotIndex == LastIndexOf(signed, ".") IN
  IF dotIndex = 0 THEN None
  ELSE LET sessionId == SubSeq(signed, 1, dotIndex - 1)
           providedHmac == SubSeq(signed, dotIndex + 1, Len(signed))
           expectedHmac == Hmac(SESSION_SECRET, sessionId)
       IN IF ByteLength(providedHmac) # ByteLength(expectedHmac)
             \/ TimingSafeEqual(providedHmac, expectedHmac) # "equal"
          THEN None
          ELSE Some(sessionId)

(***************************************************************************)
(* sign and verifySignedId on drawn inputs: raw IDs of up to MaxIdLen      *)
(* characters (a '.' and a non-ASCII character among them), their signed   *)
(* forms, every one-character substitution of a signed form, and strings   *)
(* with no '.'.                                                            *)
(***************************************************************************)
MaxIdLen == 2
SgChars == {"a", "b", ".", "U+00E9"}

RECURSIVE StringsUpTo(_, _)
StringsUpTo(chars, n) ==
  IF n = 0 THEN {<<>>}
  ELSE LET shorter == StringsUpTo(chars, n - 1)
       IN shorter \cup {Append(s, c) : s \in shorter, c \in chars}

SgIds == StringsUpTo(SgChars, MaxIdLen)
SgNoDotStrings == StringsUpTo(SgChars \ {"."}, MaxIdLen + 1)

SgSign(x) ==
  /\ sgId' = x
  /\ sgStr' = sign(x)
  /\ sgHow' = "signed"
  /\ sgRes' = [done |-> FALSE]
  /\ UNCHANGED nonSignVars

SgMutate(i, c) ==
  /\ sgHow = "signed"
  /\ i \in 1..Len(sgStr)
  /\ c # sgStr[i]
  /\ sgStr' = [sgStr EXCEPT ![i] = c]
  /\ sgHow' = "mutated"
  /\ sgRes' = [done |-> FALSE]
  /\ UNCHANGED sgId
  /\ UNCHANGED nonSignVars

SgNoDot(s) ==
  /\ sgStr' = s
  /\ sgHow' = "nodot"
  /\ sgRes' = [done |-> FALSE]
  /\ UNCHANGED sgId
  /\ UNCHANGED nonSignVars

SgVerify ==
  /\ sgHow # "none"
  /\ ~sgRes.done
  /\ sgRes' = [done |-> TRUE, out |-> verifySignedId(sgStr)]
  /\ UNCHANGED <<sgId, sgStr, sgHow>>
  /\ UNCHANGED nonSignVars

SignNext ==
  \/ \E x \in SgIds : SgSign(x)
  \/ \E i \in 1..(MaxIdLen + 1 + HmacLen), c \in SgChars : SgMutate(i, c)
  \/ \E s \in SgNoDotStrings : SgNoDot(s)
  \/ SgVerify

\* C6: verifySignedId(sign(x)) = x for every raw ID x, also one that holds a '.'
\* (the split is on the last '.'); verifySignedId returns null for a string with
\* no '.' and for a signed ID with any one character changed.
C6_SignRoundTrip ==
  sgRes.done =>
    /\ sgHow = "signed" => sgRes.out = Some(sgId)
    /\ sgHow = "mutated" => sgRes.out = None
    /\ sgHow = "nodot" => sgRes.out = None

\* verifySignedId has returned a raw ID that itself holds a '.'.
C6_Witness ==
  /\ sgRes.done /\ sgHow = "signed"
  /\ \E i \in 1..Len(sgId) : sgId[i] = "."
  /\ sgRes.out = Some(sgId)

(***************************************************************************)
(* session.ts: the store                                                   *)
(***************************************************************************)
OAUTH_TTL_MS == 600000
USER_TTL_MS == 86400000

\* crypto.randomBytes(32).toString("base64url"): the values it returns, strings of
\* one length over the base64url alphabet.  A value is never drawn twice (usedIds);
\* the values are interchangeable, so they are drawn in the order of RawIdSeq, and
\* the store holds at most as many records as there are values.
RawIdSeq == << <<"x", "a">>, <<"x", "b">>, <<"x", "c">> >>
RawIds == {RawIdSeq[i] : i \in 1..Len(RawIdSeq)}
randomBytes ==
  LET free == {i \in 1..Len(RawIdSeq) : RawIdSeq[i] \notin usedIds}
  IN RawIdSeq[CHOOSE i \in free : \A j \in free : i <= j]
MaxSessTicks == 2

\* The values the calls made on the store alone draw; the request handlers draw
\* the remaining one.
SessPool == {RawIdSeq[1], RawIdSeq[2]}

Users == {"did:a", "did:b"}
OAuthDatas == {[state |-> "s1", codeVerifier |-> "v1", tokenEndpoint |-> "t1"]}
UserDatas == [userDid : Users, verified : BOOLEAN]
\* The user-session payloads the store is exercised with on its own.
SessUserDatas == {[userDid |-> "did:a", verified |-> TRUE], [userDid |-> "did:b", verified |-> FALSE]}

MapPut(m, k, v) == [x \in DOMAIN m \cup {k} |-> IF x = k THEN v ELSE m[x]]
MapDel(m, k) == [x \in DOMAIN m \ {k} |-> m[x]]

\* getOAuthSession with the expiry comparison off by one (< for <=).
getOAuthSession_ExpiryOffByOne(signedId) ==
  LET sessionId == verifySignedId(signedId) IN
  IF ~sessionId.some \/ sessionId.val = <<>> THEN None
  ELSE IF sessionId.val \notin DOMAIN sessions THEN None
  ELSE LET entry == sessions[sessionId.val] IN
       IF entry.type # "oauth" \/ entry.expiresAt < now THEN None
       ELSE Some(entry.data)

getOAuthSession(signedId) ==
  LET sessionId == verifySignedId(signedId) IN
  IF ~sessionId.some \/ sessionId.val = <<>> THEN None
  ELSE IF sessionId.val \notin DOMAIN sessions THEN None
  ELSE LET entry == sessions[sessionId.val] IN
       IF entry.type # "oauth" \/ entry.expiresAt <= now THEN None
       ELSE Some(entry.data)

\* getUserSession without the comparison of the record's type.
getUserSession_NoTypeCheck(signedId) ==
  LET sessionId == verifySignedId(signedId) IN
  IF ~sessionId.some \/ sessionId.val = <<>> THEN None
  ELSE IF sessionId.val \notin DOMAIN sessions THEN None
  ELSE LET entry == sessions[sessionId.val] IN
       IF entry.expiresAt <= now THEN None
       ELSE Some(entry.data)

getUserSession(signedId) ==
  LET sessionId == verifySignedId(signedId) IN
  IF ~sessionId.some \/ sessionId.val = <<>> THEN None
  ELSE IF sessionId.val \notin DOMAIN sessions THEN None
  ELSE LET entry == sessions[sessionId.val] IN
       IF entry.type # "user" \/ entry.expiresAt <= now THEN None
       ELSE Some(entry.data)

\* deleteOAuthSession that verifies the ID and then removes nothing.
deleteOAuthSession_KeepsRecord(signedId) == sessions

\* The sessions Map after deleteOAuthSession(signedId).
deleteOAuthSession(signedId) ==
  LET sessionId == verifySignedId(signedId) IN
  IF sessionId.some /\ sessionId.val # <<>> THEN MapDel(sessions, sessionId.val)
  ELSE sessions

\* deleteUserSession that removes a record only when its type is "user".
deleteUserSession_UserOnly(signedId) ==
  LET sessionId == verifySignedId(signedId) IN
  IF sessionId.some /\ sessionId.val \in DOMAIN sessions
     /\ sessions[sessionId.val].type = "user"
  THEN MapDel(sessions, sessionId.val)
  ELSE sessions

\* The sessions Map after deleteUserSession(signedId).
deleteUserSession(signedId) ==
  LET sessionId == verifySignedId(signedId) IN
  IF sessionId.some /\ sessionId.val # <<>> THEN MapDel(sessions, sessionId.val)
  ELSE sessions

\* The record createOAuthSession / createUserSession stores under a fresh ID.
oauthRecord(data) == [type |-> "oauth", data |-> data, expiresAt |-> now + OAUTH_TTL_MS]
userRecord(data) == [type |-> "user", data |-> data, expiresAt |-> now + USER_TTL_MS]

\* A sweep that keeps a record at the millisecond its lifetime ends (< for <=).
sweepSessions_KeepsAtExpiry ==
  LET keep == {id \in DOMAIN sessions : ~(sessions[id].expiresAt < now)}
  IN [id \in keep |-> sessions[id]]

\* The timer callback of ensureCleanup: the Map after one sweep.
sweepSessions ==
  LET keep == {id \in DOMAIN sessions : ~(sessions[id].expiresAt <= now)}
  IN [id \in keep |-> sessions[id]]

\* Strings a caller can present: the signed IDs the store has handed out (a
\* correctly signed ID comes from sign alone), and forgeries: a signed ID with its
\* last character changed, and a raw ID with no signature.
TamperLast(s) ==
  [s EXCEPT ![Len(s)] = IF s[Len(s)] = "a" THEN "b" ELSE "a"]
Forged == {TamperLast(sign(RawIdSeq[1])), RawIdSeq[1]}
Presented == {r.signed : r \in issued} \cup Forged

\* ensureCleanup without its first line: every call starts an interval timer.
ensureCleanup_NoGuard ==
  /\ cleanupTimer' = TRUE
  /\ sessTimers' = sessTimers + 1

\* session.ts ensureCleanup: it starts the interval timer unless cleanupTimer is set.
ensureCleanup ==
  IF cleanupTimer
  THEN UNCHANGED <<cleanupTimer, sessTimers>>
  ELSE /\ cleanupTimer' = TRUE
       /\ sessTimers' = sessTimers + 1

CreateOAuthSession(data) ==
  /\ SessPool \ usedIds # {}
  /\ LET id == randomBytes IN
       /\ sessions' = MapPut(sessions, id, oauthRecord(data))
       /\ usedIds' = usedIds \cup {id}
       /\ issued' = issued \cup
            {[id |-> id, signed |-> sign(id), kind |-> "oauth", at |-> now, data |-> data]}
       /\ lastOp' = [op |-> "createOAuth", arg |-> sign(id)]
  /\ ensureCleanup
  /\ UNCHANGED <<now, deleted>>
  /\ UNCHANGED nonSessVars

\* What createUserSession does to the store; it returns sign(randomBytes).
createUserSession(data) ==
  /\ LET id == randomBytes IN
       /\ sessions' = MapPut(sessions, id, userRecord(data))
       /\ usedIds' = usedIds \cup {id}
       /\ issued' = issued \cup
            {[id |-> id, signed |-> sign(id), kind |-> "user", at |-> now, data |-> data]}
       /\ lastOp' = [op |-> "createUser", arg |-> sign(id)]
  /\ ensureCleanup

CreateUserSession(data) ==
  /\ SessPool \ usedIds # {}
  /\ createUserSession(data)
  /\ UNCHANGED <<now, deleted>>
  /\ UNCHANGED nonSessVars

GetOAuthSession(s) ==
  /\ lastOp' = [op |-> "getOAuth", arg |-> s]
  /\ UNCHANGED <<now, sessions, cleanupTimer, sessTimers, usedIds, issued, deleted>>
  /\ UNCHANGED nonSessVars

GetUserSession(s) ==
  /\ lastOp' = [op |-> "getUser", arg |-> s]
  /\ UNCHANGED <<now, sessions, cleanupTimer, sessTimers, usedIds, issued, deleted>>
  /\ UNCHANGED nonSessVars

DeleteOAuthSession(s) ==
  /\ sessions' = deleteOAuthSession(s)
  /\ deleted' = IF verifySignedId(s).some THEN deleted \cup {s} ELSE deleted
  /\ lastOp' = [op |-> "deleteOAuth", arg |-> s]
  /\ UNCHANGED <<now, cleanupTimer, sessTimers, usedIds, issued>>
  /\ UNCHANGED nonSessVars

DeleteUserSession(s) ==
  /\ sessions' = deleteUserSession(s)
  /\ deleted' = IF verifySignedId(s).some THEN deleted \cup {s} ELSE deleted
  /\ lastOp' = [op |-> "deleteUser", arg |-> s]
  /\ UNCHANGED <<now, cleanupTimer, sessTimers, usedIds, issued>>
  /\ UNCHANGED nonSessVars

\* The setInterval callback; it can run only once the timer exists.
SessionSweep ==
  /\ cleanupTimer
  /\ sessions' = sweepSessions
  /\ lastOp' = [op |-> "sweep", arg |-> <<>>]
  /\ UNCHANGED <<now, cleanupTimer, sessTimers, usedIds, issued, deleted>>
  /\ UNCHANGED nonSessVars

\* Time passes: one millisecond, or up to just before a TTL runs out.
SessTickSteps == {1, OAUTH_TTL_MS - 1, USER_TTL_MS - 1}
SessTimes == TimesWithin(SessTickSteps, MaxSessTicks)
SessTick(d) ==
  /\ now + d \in SessTimes
  /\ now' = now + d
  /\ lastOp' = [op |-> "tick", arg |-> <<>>]
  /\ UNCHANGED <<sessions, cleanupTimer, sessTimers, usedIds, issued, deleted>>
  /\ UNCHANGED nonSessVars

SessNext ==
  \/ \E data \in OAuthDatas : CreateOAuthSession(data)
  \/ \E data \in SessUserDatas : CreateUserSession(data)
  \/ \E s \in Presented : GetOAuthSession(s)
  \/ \E s \in Presented : GetUserSession(s)
  \/ \E s \in Presented : DeleteOAuthSession(s)
  \/ \E s \in Presented : DeleteUserSession(s)
  \/ SessionSweep
  \/ \E d \in SessTickSteps : SessTick(d)


(***************************************************************************)
(* csrf.ts                                                                 *)
(***************************************************************************)
TOKEN_MAX_AGE_MS == 3600000

\* Number.prototype.toString(36) of a non-negative integer.
RECURSIVE ToBase36(_)
ToBase36(n) ==
  IF n < 36 THEN <<Digits36[n + 1]>>
  ELSE Append(ToBase36(n \div 36), Digits36[(n % 36) + 1])

IsDigit36(c) == \E i \in 1..36 : Digits36[i] = c
DigitValue(c) == (CHOOSE i \in 1..36 : Digits36[i] = c) - 1

\* parseInt(s, 36): an optional '-', then the longest prefix of base-36 digits;
\* NaN when there is no digit.
RECURSIVE ParseDigits36(_, _)
ParseDigits36(s, acc) ==
  IF s = <<>> \/ ~IsDigit36(Head(s)) THEN acc
  ELSE ParseDigits36(Tail(s), acc * 36 + DigitValue(Head(s)))
ParseInt36(s) ==
  LET neg == s # <<>> /\ Head(s) = "-"
      body == IF neg THEN Tail(s) ELSE s
  IN IF body = <<>> \/ ~IsDigit36(Head(body)) THEN [nan |-> TRUE]
     ELSE [nan |-> FALSE,
           val |-> IF neg THEN 0 - ParseDigits36(body, 0) ELSE ParseDigits36(body, 0)]

\* crypto.randomBytes(16).toString("base64url"): the values drawn.
CsrfNonces == {<<"n", "a">>, <<"n", "b">>}

generateCsrfToken(random) ==
  LET timestamp == ToBase36(now)
      payload == timestamp \o <<".">> \o random
      hmac == Hmac(CSRF_SECRET, payload)
  IN payload \o <<".">> \o hmac

\* validateCsrfToken with the age comparison off by one (>= for >).
validateCsrfToken_AgeOffByOne(token) ==
  IF token = <<>> THEN "false"
  ELSE LET parts == Split(token, ".") IN
    IF Len(parts) # 3 THEN "false"
    ELSE IF parts[1] = <<>> \/ parts[2] = <<>> \/ parts[3] = <<>> THEN "false"
    ELSE LET payload == parts[1] \o <<".">> \o parts[2]
             expectedHmac == Hmac(CSRF_SECRET, payload)
             created == ParseInt36(parts[1])
         IN IF Len(expectedHmac) # Len(parts[3]) THEN "false"
            ELSE IF TimingSafeEqual(expectedHmac, parts[3]) = "throws" THEN "throws"
            ELSE IF TimingSafeEqual(expectedHmac, parts[3]) # "equal" THEN "false"
            ELSE IF created.nan THEN "false"
            ELSE IF now - created.val >= TOKEN_MAX_AGE_MS THEN "false"
            ELSE "true"

\* validateCsrfToken: "true", "false", or "throws" when an exception leaves it.
validateCsrfToken(token) ==
  IF token = <<>> THEN "false"
  ELSE LET parts == Split(token, ".") IN
    IF Len(parts) # 3 THEN "false"
    ELSE IF parts[1] = <<>> \/ parts[2] = <<>> \/ parts[3] = <<>> THEN "false"
    ELSE LET payload == parts[1] \o <<".">> \o parts[2]
             expectedHmac == Hmac(CSRF_SECRET, payload)
             created == ParseInt36(parts[1])
         IN \* expectedHmac.length !== providedHmac.length compares string lengths
            IF Len(expectedHmac) # Len(parts[3]) THEN "false"
            ELSE IF TimingSafeEqual(expectedHmac, parts[3]) = "throws" THEN "throws"
            ELSE IF TimingSafeEqual(expectedHmac, parts[3]) # "equal" THEN "false"
            ELSE IF created.nan THEN "false"
            ELSE IF now - created.val > TOKEN_MAX_AGE_MS THEN "false"
            ELSE "true"

MaxCsrfTokens == 2
MaxCsrfTicks == 3

\* A string of n copies of the non-ASCII character.
NonAscii(n) == [i \in 1..n |-> "U+00E9"]
\* The token with its third part replaced by as many non-ASCII characters.
WithNonAsciiHmac(token) ==
  SubSeq(token, 1, LastIndexOf(token, ".")) \o NonAscii(Len(token) - LastIndexOf(token, "."))
\* The first two parts of the token alone, and the token with a fourth part.
TwoParts(token) == SubSeq(token, 1, LastIndexOf(token, ".") - 1)
FourParts(token) == token \o <<".", "a">>

\* Strings that are no token: empty, one, two and four parts, an empty part, a
\* third part of the wrong length, of the right length, and of the right
\* character length in non-ASCII characters.
MalformedTokens ==
  { <<>>, <<"a", "b">>, <<"a", ".", "b">>, <<"a", ".", "b", ".", "c", ".", "d">>,
    <<"a", ".", ".", "c">>, <<".", "b", ".", "c">>, <<"a", ".", "b", ".">>,
    <<"a", ".", "b", ".", "c">>,
    <<"a", ".", "b", ".">> \o [i \in 1..HmacLen |-> "c"],
    <<"a", ".", "b", ".">> \o NonAscii(HmacLen),
    <<"_", ".", "b", ".">> \o Hmac(CSRF_SECRET, <<"_", ".", "b">>) }

\* What a caller can pass: the tokens handed out, strings derived from them, and
\* the malformed strings.
CsrfInputs ==
  LET toks == {r.token : r \in csrfIssued}
  IN toks \cup {TamperLast(k) : k \in toks} \cup {WithNonAsciiHmac(k) : k \in toks}
       \cup {TwoParts(k) : k \in toks} \cup {FourParts(k) : k \in toks}
       \cup MalformedTokens

CsrfGenerate(random) ==
  /\ Cardinality(csrfIssued) < MaxCsrfTokens
  /\ csrfIssued' = csrfIssued \cup {[token |-> generateCsrfToken(random), at |-> now]}
  /\ csrfLast' = [op |-> "generate", token |-> generateCsrfToken(random), result |-> "none"]
  /\ UNCHANGED now
  /\ UNCHANGED nonCsrfVars

CsrfValidate(token) ==
  /\ csrfLast' = [op |-> "validate", token |-> token, result |-> validateCsrfToken(token)]
  /\ UNCHANGED <<now, csrfIssued>>
  /\ UNCHANGED nonCsrfVars

CsrfTickSteps == {1, TOKEN_MAX_AGE_MS - 1}
CsrfTimes == TimesWithin(CsrfTickSteps, MaxCsrfTicks)
CsrfTick(d) ==
  /\ now + d \in CsrfTimes
  /\ now' = now + d
  /\ csrfLast' = [op |-> "tick", token |-> <<>>, result |-> "none"]
  /\ UNCHANGED csrfIssued
  /\ UNCHANGED nonCsrfVars

CsrfNext ==
  \/ \E random \in CsrfNonces : CsrfGenerate(random)
  \/ \E token \in CsrfInputs : CsrfValidate(token)
  \/ \E d \in CsrfTickSteps : CsrfTick(d)

\* The token was produced by generateCsrfToken and is at most one hour old.
CsrfGenuine(token) ==
  \E r \in csrfIssued : r.token = token /\ now - r.at <= 60 * 60 * 1000

\* C7: validateCsrfToken returns false, and does not throw, for every input that
\* is not a well-formed, correctly signed, unexpired token.
C7_FalseNeverThrows ==
  (csrfLast.op = "validate" /\ ~CsrfGenuine(csrfLast.token))
    => csrfLast.result = "false"

\* C8: a token produced at time t validates at every time up to t + 1 hour and
\* fails at every later time, however often it has been validated before.
C8_ValidForOneHour ==
  \A r \in csrfIssued :
    validateCsrfToken(r.token) = IF now - r.at <= 60 * 60 * 1000 THEN "true" ELSE "false"

\* A token has just validated exactly one hour after it was produced, while a
\* token one millisecond older no longer validates.
C8_Witness ==
  /\ csrfLast.op = "validate" /\ csrfLast.result = "true"
  /\ \E r \in csrfIssued : r.token = csrfLast.token /\ now - r.at = TOKEN_MAX_AGE_MS
  /\ \E r \in csrfIssued : now - r.at = TOKEN_MAX_AGE_MS + 1
                           /\ validateCsrfToken(r.token) = "false"

(***************************************************************************)
(* ratelimit.ts                                                            *)
(***************************************************************************)
\* The rate and window of the send-transaction handler, which calls
\* checkRateLimit(`tx:${did}`, RATE_LIMIT_TX, RATE_LIMIT_WINDOW_MS).
RATE_LIMIT_TX == 5
RATE_LIMIT_WINDOW_MS == 60000

\* The period of the sweep timer.
CLEANUP_INTERVAL_MS == 60000

\* The call a user's transactions make.
RlCalls ==
  { [key |-> "tx:did:a", maxRequests |-> RATE_LIMIT_TX, windowMs |-> RATE_LIMIT_WINDOW_MS] }

Min(a, b) == IF a <= b THEN a ELSE b

\* A refill of one token per elapsed window (the factor maxRequests left out).
rlRefill_OnePerWindow(elapsed, maxRequests, windowMs) == elapsed \div windowMs

\* Math.floor((elapsed / windowMs) * maxRequests).  For the windows and rates of
\* the call sites the floating-point value has the same floor as the exact one.
rlRefill(elapsed, maxRequests, windowMs) == (elapsed * maxRequests) \div windowMs

\* The bucket checkRateLimit works on: the stored one, or a full one created now.
rlBucket(key, maxRequests) ==
  IF key \in DOMAIN buckets THEN buckets[key]
  ELSE [tokens |-> maxRequests, lastRefill |-> now]

\* A refill step that sets lastRefill to the time of the call even when no token
\* was added.
rlRefilled_AlwaysAdvance(key, maxRequests, windowMs) ==
  LET bucket == rlBucket(key, maxRequests)
      elapsed == now - bucket.lastRefill
      refill == rlRefill(elapsed, maxRequests, windowMs)
  IN [tokens |-> Min(maxRequests, bucket.tokens + refill), lastRefill |-> now]

\* The bucket after the refill step.
rlRefilled(key, maxRequests, windowMs) ==
  LET bucket == rlBucket(key, maxRequests)
      elapsed == now - bucket.lastRefill
      refill == rlRefill(elapsed, maxRequests, windowMs)
  IN IF refill > 0
     THEN [tokens |-> Min(maxRequests, bucket.tokens + refill), lastRefill |-> now]
     ELSE bucket

\* checkRateLimit that admits a call when no token is left (>= for >).
checkRateLimit_AllowsAtZero(key, maxRequests, windowMs) ==
  LET bucket == rlRefilled(key, maxRequests, windowMs) IN
  IF bucket.tokens >= 0
  THEN [allowed |-> TRUE, retryAfter |-> 0,
        bucket |-> [bucket EXCEPT !.tokens = @ - 1]]
  ELSE [allowed |-> FALSE, retryAfter |-> (windowMs + 999) \div 1000, bucket |-> bucket]

\* checkRateLimit whose decrement is lost: it takes the token from a copy of the
\* bucket, as a read and a write separated by another request would.
checkRateLimit_LostUpdate(key, maxRequests, windowMs) ==
  LET bucket == rlRefilled(key, maxRequests, windowMs) IN
  IF bucket.tokens > 0
  THEN [allowed |-> TRUE, retryAfter |-> 0, bucket |-> bucket]
  ELSE [allowed |-> FALSE, retryAfter |-> (windowMs + 999) \div 1000, bucket |-> bucket]

\* checkRateLimit: what it returns (retryAfter 0 stands for undefined) and the
\* bucket it leaves under `key`.
checkRateLimit(key, maxRequests, windowMs) ==
  LET bucket == rlRefilled(key, maxRequests, windowMs) IN
  IF bucket.tokens > 0
  THEN [allowed |-> TRUE, retryAfter |-> 0, bucket |-> [bucket EXCEPT !.tokens = @ - 1]]
  ELSE [allowed |-> FALSE, retryAfter |-> (windowMs + 999) \div 1000, bucket |-> bucket]

\* The buckets Map after one run of the timer callback whose closure holds windowMs.
sweepBuckets(windowMs) ==
  LET keep == {k \in DOMAIN buckets : ~(now - buckets[k].lastRefill > windowMs * 2)}
  IN [k \in keep |-> buckets[k]]

MaxRlTicks == 3

\* rlLast when the last step was not a call of checkRateLimit.
RlIdle == [op |-> "idle", key |-> "", maxRequests |-> 0, windowMs |-> 0,
           allowed |-> FALSE, retryAfter |-> 0]

\* History of a key's bucket: when it was created, how many calls it has served
\* (counted up to one past the rate), and, since the last call that found a whole
\* window elapsed, how many calls were made and how many tokens were left before.
rlHistAfter(c) ==
  LET fresh == c.key \notin DOMAIN buckets
      old == IF fresh THEN [first |-> now, n |-> 0, sinceFull |-> 0, prevTokens |-> 0]
             ELSE rlHist[c.key]
      windowElapsed == ~fresh /\ now - buckets[c.key].lastRefill >= c.windowMs
  IN [first |-> old.first,
      n |-> Min(c.maxRequests + 2, old.n + 1),
      sinceFull |-> IF windowElapsed THEN 1
                    ELSE IF old.sinceFull = 0 THEN 0
                    ELSE Min(c.maxRequests + 1, old.sinceFull + 1),
      prevTokens |-> IF windowElapsed THEN buckets[c.key].tokens ELSE old.prevTokens]

\* ratelimit.ts ensureCleanup(windowMs): it starts the interval timer, whose
\* callback keeps this call's windowMs, unless cleanupTimer is set.
rlEnsureCleanup(windowMs) ==
  IF rlTimer.some
  THEN UNCHANGED <<rlTimer, rlTimers>>
  ELSE /\ rlTimer' = Some([windowMs |-> windowMs, due |-> now + CLEANUP_INTERVAL_MS])
       /\ rlTimers' = rlTimers + 1

\* What one call of checkRateLimit does to the module's timer and Map.
rateLimitStore(c) ==
  /\ rlEnsureCleanup(c.windowMs)
  /\ buckets' = MapPut(buckets, c.key, checkRateLimit(c.key, c.maxRequests, c.windowMs).bucket)

\* One call of checkRateLimit, with the histories of the limiter kept.
rateLimitCall(c) ==
  LET r == checkRateLimit(c.key, c.maxRequests, c.windowMs) IN
  /\ rateLimitStore(c)
  /\ rlHist' = MapPut(rlHist, c.key, rlHistAfter(c))
  /\ rlBurst' = MapPut(rlBurst, c.key,
                  Min(c.maxRequests + 1,
                      (IF c.key \in DOMAIN rlBurst THEN rlBurst[c.key] ELSE 0)
                        + (IF r.allowed THEN 1 ELSE 0)))
  /\ rlLast' = [op |-> "check", key |-> c.key, maxRequests |-> c.maxRequests,
                windowMs |-> c.windowMs, allowed |-> r.allowed, retryAfter |-> r.retryAfter]

CheckRateLimit(c) ==
  /\ rateLimitCall(c)
  /\ UNCHANGED now
  /\ UNCHANGED nonRlVars

\* The setInterval callback: it runs once the timer exists and an interval has
\* passed since the timer was set or last fired.
RlSweep ==
  /\ rlTimer.some
  /\ now >= rlTimer.val.due
  /\ buckets' = sweepBuckets(rlTimer.val.windowMs)
  /\ rlHist' = [k \in DOMAIN sweepBuckets(rlTimer.val.windowMs) |-> rlHist[k]]
  /\ rlLast' = RlIdle
  /\ rlTimer' = Some([rlTimer.val EXCEPT !.due = @ + CLEANUP_INTERVAL_MS])
  /\ UNCHANGED <<rlTimers, rlBurst>>
  /\ UNCHANGED now
  /\ UNCHANGED nonRlVars

\* Time passes: one millisecond, up to just before the first token of the slower
\* rate is due, or up to just before a window ends.
RlTickSteps == {1, (RATE_LIMIT_WINDOW_MS \div RATE_LIMIT_TX) - 1, RATE_LIMIT_WINDOW_MS - 1}
RlTimes == TimesWithin(RlTickSteps, MaxRlTicks)
RlTick(d) ==
  /\ now + d \in RlTimes
  /\ now' = now + d
  /\ rlLast' = RlIdle
  /\ rlBurst' = <<>>
  /\ UNCHANGED <<buckets, rlTimer, rlTimers, rlHist>>
  /\ UNCHANGED nonRlVars

RlNext ==
  \/ \E c \in RlCalls : CheckRateLimit(c)
  \/ RlSweep
  \/ \E d \in RlTickSteps : RlTick(d)

\* Keys checked with different windows: a transaction key, and a key limited to
\* one request per second.
RlMixCalls ==
  { [key |-> "tx:did:a", maxRequests |-> RATE_LIMIT_TX, windowMs |-> RATE_LIMIT_WINDOW_MS],
    [key |-> "burst:did:a", maxRequests |-> 1, windowMs |-> 1000] }

\* The windowMs a key is checked with.
KeyWindow(key) == (CHOOSE c \in RlMixCalls : c.key = key).windowMs

RlMixNext ==
  \/ \E c \in RlMixCalls : CheckRateLimit(c)
  \/ RlSweep
  \/ \E d \in RlTickSteps : RlTick(d)

\* The process with both stores in use: sessions are created, rate limits are
\* checked, an interval passes and the two timer callbacks run.
MaxTimerTicks == 2

TimerTick ==
  /\ now + CLEANUP_INTERVAL_MS <= MaxTimerTicks * CLEANUP_INTERVAL_MS
  /\ now' = now + CLEANUP_INTERVAL_MS
  /\ lastOp' = [op |-> "tick", arg |-> <<>>]
  /\ rlLast' = RlIdle
  /\ UNCHANGED <<sessions, cleanupTimer, sessTimers, usedIds, issued, deleted>>
  /\ rlBurst' = <<>>
  /\ UNCHANGED <<buckets, rlTimer, rlTimers, rlHist>>
  /\ UNCHANGED <<csrfVars, appVars, pureVars>>

TimerNext ==
  \/ \E data \in OAuthDatas : CreateOAuthSession(data)
  \/ \E data \in SessUserDatas : CreateUserSession(data)
  \/ SessionSweep
  \/ \E c \in RlCalls : CheckRateLimit(c)
  \/ RlSweep
  \/ TimerTick

(***************************************************************************)
(* Cleanup timers: properties                                              *)
(***************************************************************************)
\* The step is a call of createOAuthSession or createUserSession.
SessionCreated ==
  /\ lastOp'.op \in {"createOAuth", "createUser"}
  /\ usedIds' # usedIds

\* C25: each store has at most one cleanup timer.  The process starts with none;
\* a store's timer count changes only in a session creation (resp. a call of
\* checkRateLimit), and after every such step it is exactly one.
C25_OneTimerPerStore ==
  /\ sessTimers = 0
  /\ rlTimers = 0
  /\ [][/\ sessTimers' # sessTimers => SessionCreated
        /\ SessionCreated => sessTimers' = 1
        /\ rlTimers' # rlTimers => rlLast'.op = "check"
        /\ rlLast'.op = "check" => rlTimers' = 1]_vars

\* Two sessions have been created and a second call of checkRateLimit has just
\* returned, after the sweeps have run.
C25_Witness ==
  /\ sessTimers = 1
  /\ rlTimers = 1
  /\ Cardinality(usedIds) = 2
  /\ rlLast.op = "check"
  /\ rlHist[rlLast.key].n >= 2
  /\ now >= CLEANUP_INTERVAL_MS

(***************************************************************************)
(* Rate limiter: properties                                                *)
(***************************************************************************)
\* C11: a step removes a bucket only when the bucket has been idle for more than
\* twice the windowMs its key is checked with, whichever key was checked first.
C11_SweepOnlyIdle ==
  [][\A k \in DOMAIN buckets \ DOMAIN buckets' :
       now - buckets[k].lastRefill > 2 * KeyWindow(k)]_vars

\* The last step was a call of checkRateLimit.
RlChecked == rlLast.op = "check"

\* C9 (as stated): the first maxRequests calls for a new key are allowed, and the
\* call after them is denied with a positive retryAfter whenever it is made
\* before windowMs has elapsed since the first call.
C9_BurstThenDeniedInWindow ==
  RlChecked =>
    LET h == rlHist[rlLast.key] IN
    /\ h.n <= rlLast.maxRequests => rlLast.allowed
    /\ (h.n = rlLast.maxRequests + 1 /\ now - h.first < rlLast.windowMs)
         => (~rlLast.allowed /\ rlLast.retryAfter > 0)

\* C9 (amended): the first maxRequests calls for a new key are allowed, and the
\* call after them is denied with a positive retryAfter when it is made before
\* the first token is refilled, that is less than windowMs / maxRequests after
\* the first call.
C9_BurstThenDeniedBeforeRefill ==
  RlChecked =>
    LET h == rlHist[rlLast.key] IN
    /\ h.n <= rlLast.maxRequests => rlLast.allowed
    /\ (h.n = rlLast.maxRequests + 1 /\ (now - h.first) * rlLast.maxRequests < rlLast.windowMs)
         => (~rlLast.allowed /\ rlLast.retryAfter > 0)

\* The call after the burst was denied at the last millisecond before a refill.
C9_Witness ==
  /\ RlChecked
  /\ rlHist[rlLast.key].n = rlLast.maxRequests + 1
  /\ (now - rlHist[rlLast.key].first + 1) * rlLast.maxRequests = rlLast.windowMs
  /\ ~rlLast.allowed
  /\ rlLast.retryAfter = 60

\* C10: from a call that finds at least windowMs elapsed since the bucket's
\* lastRefill, maxRequests calls in a row for that key are allowed, whatever the
\* bucket held before.
C10_FullAfterWindow ==
  RlChecked =>
    LET h == rlHist[rlLast.key] IN
    h.sinceFull \in 1..rlLast.maxRequests => rlLast.allowed

\* The last of maxRequests calls after a window that began with an empty bucket.
C10_Witness ==
  /\ RlChecked
  /\ rlHist[rlLast.key].sinceFull = rlLast.maxRequests
  /\ rlHist[rlLast.key].prevTokens = 0
  /\ rlLast.allowed

\* C26: checkRateLimit reads, refills and decrements the bucket in one step, so
\* of the calls made for one key while the clock stands still, in whatever
\* order they and the sweep run, at most maxRequests are allowed.
C26_BurstWithinRate ==
  \A c \in RlCalls : c.key \in DOMAIN rlBurst => rlBurst[c.key] <= c.maxRequests

\* A call has just been denied at the instant at which maxRequests calls for its
\* key were allowed.
C26_Witness ==
  /\ RlChecked
  /\ ~rlLast.allowed
  /\ rlBurst[rlLast.key] = rlLast.maxRequests
  /\ now > 0

\* Math.ceil(a / b) for positive integers: the least n with n * b >= a.
CeilDiv(a, b) == CHOOSE n \in 0..(a \div b + 1) : n * b >= a /\ (n - 1) * b < a

\* C30: a call of checkRateLimit(key, maxRequests, windowMs) leaves the key's
\* bucket with 0 <= tokens <= maxRequests; it adds
\* floor(elapsed / windowMs * maxRequests) tokens capped at maxRequests to the
\* bucket it found (a full one when the key is new), sets lastRefill to the
\* time of the call exactly when that refill is positive, takes one token when
\* one is left, and otherwise is denied, leaves tokens at 0 and returns
\* retryAfter = ceil(windowMs / 1000).
C30_RefillThenTake ==
  [][rlLast'.op = "check" =>
       LET key == rlLast'.key
           maxRequests == rlLast'.maxRequests
           windowMs == rlLast'.windowMs
           found == IF key \in DOMAIN buckets THEN buckets[key]
                    ELSE [tokens |-> maxRequests, lastRefill |-> now]
           elapsed == now - found.lastRefill
           refill == (elapsed * maxRequests) \div windowMs
           filled == IF found.tokens + refill > maxRequests THEN maxRequests
                     ELSE found.tokens + refill
           left == buckets'[key]
       IN /\ left.tokens >= 0 /\ left.tokens <= maxRequests
          /\ left.lastRefill = IF refill > 0 THEN now ELSE found.lastRefill
          /\ rlLast'.allowed <=> filled > 0
          /\ rlLast'.allowed => left.tokens = filled - 1 /\ rlLast'.retryAfter = 0
          /\ ~rlLast'.allowed => /\ left.tokens = 0
                                 /\ rlLast'.retryAfter = CeilDiv(windowMs, 1000)]_vars

\* A call has just been denied before the first token was due: the bucket is
\* empty and its lastRefill is still the time of an earlier call.
C30_Witness ==
  /\ RlChecked
  /\ ~rlLast.allowed
  /\ rlLast.retryAfter = 60
  /\ buckets[rlLast.key].tokens = 0
  /\ buckets[rlLast.key].lastRefill < now

(***************************************************************************)
(* Session store: properties                                               *)
(***************************************************************************)
\* C1: a signed ID returned by createOAuthSession never resolves through
\* getUserSession, and a signed ID returned by createUserSession never resolves
\* through getOAuthSession: both return null, in every reachable state.
C1_NoCrossKind ==
  \A r \in issued :
    /\ r.kind = "oauth" => getUserSession(r.signed) = None
    /\ r.kind = "user" => getOAuthSession(r.signed) = None

\* getUserSession has just been called with the signed ID of a live OAuth session
\* while a live user session exists too.
C1_Witness ==
  /\ lastOp.op = "getUser"
  /\ \E r \in issued : r.kind = "oauth" /\ r.signed = lastOp.arg
                         /\ getOAuthSession(r.signed) # None
  /\ \E u \in issued : u.kind = "user" /\ getUserSession(u.signed) # None

\* What the claim says a getter of `kind` with lifetime `ttl` returns for s.
C3_Expected(s, kind, ttl) ==
  LET v == verifySignedId(s)
      hit == {r \in issued : v.some /\ r.id = v.val /\ r.id \in DOMAIN sessions
                               /\ r.kind = kind /\ now < r.at + ttl}
  IN IF hit = {} THEN None ELSE Some((CHOOSE r \in hit : TRUE).data)

\* C3: a getter returns the stored data if and only if the signature verifies, a
\* record exists under the raw ID, its kind is the getter's and the current time
\* is strictly before creation time + 10 minutes (OAuth) or 24 hours (user);
\* in every other case, swept or not, it returns null.
C3_GetIffLive ==
  \A s \in Presented :
    /\ getOAuthSession(s) = C3_Expected(s, "oauth", 10 * 60 * 1000)
    /\ getUserSession(s) = C3_Expected(s, "user", 24 * 60 * 60 * 1000)

\* getOAuthSession has just returned null for a record that is still in the Map
\* at the very millisecond its lifetime ends, while a user session created at the
\* same time still resolves.
C3_Witness ==
  /\ lastOp.op = "getOAuth"
  /\ \E r \in issued : /\ r.kind = "oauth" /\ r.signed = lastOp.arg
                         /\ r.id \in DOMAIN sessions
                         /\ now = r.at + OAUTH_TTL_MS
                         /\ getOAuthSession(r.signed) = None
  /\ \E u \in issued : u.kind = "user" /\ getUserSession(u.signed) = Some(u.data)

\* C4: once a delete call was made with a validly signed ID s, the getters return
\* null for s in every later state; and a delete call whose ID does not verify or
\* whose record is absent leaves the Map as it was.
C4_DeleteIsFinal ==
  /\ [](\A s \in deleted : getOAuthSession(s) = None /\ getUserSession(s) = None)
  /\ [][(/\ lastOp'.op \in {"deleteOAuth", "deleteUser"}
          /\ LET v == verifySignedId(lastOp'.arg)
             IN ~v.some \/ v.val \notin DOMAIN sessions)
        => sessions' = sessions]_vars

\* getOAuthSession has just been called with the signed ID of an OAuth session
\* that deleteOAuthSession removed before its lifetime ended.
C4_Witness ==
  /\ lastOp.op = "getOAuth"
  /\ lastOp.arg \in deleted
  /\ \E r \in issued : r.signed = lastOp.arg /\ r.kind = "oauth"
                         /\ now < r.at + OAUTH_TTL_MS

\* C32: a run of the sweep leaves exactly the records whose expiresAt is after
\* the time of the sweep, unchanged; and, the timer firing again and again, a
\* record that has expired is eventually out of the Map.
C32_SweepExact ==
  /\ [][(lastOp'.op = "sweep") =>
          sessions' = [id \in {i \in DOMAIN sessions : sessions[i].expiresAt > now}
                         |-> sessions[id]]]_vars
  /\ \A id \in SessPool :
       (id \in DOMAIN sessions /\ sessions[id].expiresAt <= now)
         ~> (id \notin DOMAIN sessions)

\* The sweep has just run at the very millisecond an OAuth session's lifetime
\* ended: that record is gone and a user session created with it is still there.
C32_Witness ==
  /\ lastOp.op = "sweep"
  /\ \E r \in issued : /\ r.kind = "oauth"
                         /\ r.at + OAUTH_TTL_MS = now
                         /\ r.id \notin DOMAIN sessions
                         /\ r.signed \notin deleted
  /\ \E u \in issued : /\ u.kind = "user"
                         /\ u.id \in DOMAIN sessions
                         /\ getUserSession(u.signed) = Some(u.data)

\* C36: a call of deleteOAuthSession with the signed ID of a user session that
\* getUserSession resolves leaves it resolvable through getUserSession, and a
\* call of deleteUserSession with the signed ID of an OAuth session that
\* getOAuthSession resolves leaves it resolvable through getOAuthSession.
C36_DeleteRespectsKind ==
  [][/\ (lastOp'.op = "deleteOAuth") =>
          (\A r \in issued :
             (r.kind = "user" /\ r.signed = lastOp'.arg /\ getUserSession(r.signed) # None)
               => (getUserSession(r.signed) # None)')
     /\ (lastOp'.op = "deleteUser") =>
          (\A r \in issued :
             (r.kind = "oauth" /\ r.signed = lastOp'.arg /\ getOAuthSession(r.signed) # None)
               => (getOAuthSession(r.signed) # None)')]_vars

\* C36 (amended): deletion does not look at the kind.  A call of either delete
\* function with an ID whose signature verifies removes the record stored under
\* that raw ID, whatever its type, and nothing else; a call with an ID that does
\* not verify leaves the Map as it was.
C36_DeleteIgnoresKind ==
  [][(lastOp'.op \in {"deleteOAuth", "deleteUser"}) =>
       LET v == verifySignedId(lastOp'.arg) IN
       IF v.some
       THEN sessions' = [id \in DOMAIN sessions \ {v.val} |-> sessions[id]]
       ELSE sessions' = sessions]_vars

\* deleteUserSession has just been called with the signed ID of an OAuth session
\* within its lifetime, and the record is gone.
C36_Witness ==
  /\ lastOp.op = "deleteUser"
  /\ \E r \in issued : /\ r.kind = "oauth"
                         /\ r.signed = lastOp.arg
                         /\ now < r.at + OAUTH_TTL_MS
                         /\ r.id \notin DOMAIN sessions
                         /\ getOAuthSession(r.signed) = None

(***************************************************************************)
(* lib/twofa: configurations, codes and the stores behind them             *)
(***************************************************************************)
Methods == {"totp", "email", "passkey"}

Range(s) == {s[i] : i \in 1..Len(s)}

\* A method: its type and enabledAt, which also stands for the secret or the
\* address enrolled with it.
Method(type, enabledAt) == [type |-> type, enabledAt |-> enabledAt]

\* The configurations persisted when the process starts: one user has enrolled
\* all three methods, the other has no second factor.
TwofaEnrolled ==
  [d \in {"did:a"} |->
     [version |-> 2, defaultMethod |-> "totp",
      methods |-> <<Method("totp", 1), Method("email", 1), Method("passkey", 1)>>]]

\* getEnabledMethods: the types of the methods, in list order.
getEnabledMethods(config) == [i \in 1..Len(config.methods) |-> config.methods[i].type]

\* getMethodConfig: whether the configuration holds a method of this type.
getMethodConfig(config, type) == type \in Range(getEnabledMethods(config))

\* addMethod that makes an appended method the default.
addMethod_MakesDefault(config, method) ==
  IF ~config.some
  THEN [version |-> 2, defaultMethod |-> method.type, methods |-> <<method>>]
  ELSE IF method.type \in {config.val.methods[i].type : i \in 1..Len(config.val.methods)}
  THEN [config.val EXCEPT !.methods =
          [i \in 1..Len(@) |-> IF @[i].type = method.type THEN method ELSE @[i]]]
  ELSE [config.val EXCEPT !.methods = Append(@, method), !.defaultMethod = method.type]

\* addMethod that always appends.
addMethod_AlwaysAppends(config, method) ==
  IF ~config.some
  THEN [version |-> 2, defaultMethod |-> method.type, methods |-> <<method>>]
  ELSE [config.val EXCEPT !.methods = Append(@, method)]

\* addMethod: a new configuration for None; else the method replaces the one of
\* its type in place, or is appended.
addMethod(config, method) ==
  IF ~config.some
  THEN [version |-> 2, defaultMethod |-> method.type, methods |-> <<method>>]
  ELSE IF getMethodConfig(config.val, method.type)
  THEN [config.val EXCEPT !.methods =
          [i \in 1..Len(@) |-> IF @[i].type = method.type THEN method ELSE @[i]]]
  ELSE [config.val EXCEPT !.methods = Append(@, method)]

\* removeMethod that keeps defaultMethod as it was.
removeMethod_KeepsDefault(config, type) ==
  LET rest == SelectSeq(config.methods, LAMBDA m : m.type # type) IN
  IF rest = <<>> THEN None
  ELSE Some([config EXCEPT !.methods = rest])

\* removeMethod: the configuration without the method, None when no method is left.
removeMethod(config, type) ==
  LET rest == SelectSeq(config.methods, LAMBDA m : m.type # type) IN
  IF rest = <<>> THEN None
  ELSE Some([version |-> config.version,
             defaultMethod |-> IF config.defaultMethod = type THEN rest[1].type
                               ELSE config.defaultMethod,
             methods |-> rest])

\* The code the user's authenticator shows now, the code generateEmailOtp
\* draws, and a code that is neither.
TotpNow == <<"1", "2", "3", "4", "5", "6">>
EmailOtp == <<"4", "2", "4", "2", "4", "2">>
WrongCode == <<"0", "0", "0", "0", "0", "0">>

verifyTotpCode(code) == code = TotpNow
generateEmailOtp == EmailOtp

\* verifyPendingCode: success iff a code is pending for the user and it matches.
verifyPendingCode(did, code) == did \in DOMAIN pending /\ pending[did].code = code

\* String.prototype.trim.
WhiteSpace == {" ", "\t", "\n", "\r"}
RECURSIVE TrimStart(_)
TrimStart(s) == IF s # <<>> /\ Head(s) \in WhiteSpace THEN TrimStart(Tail(s)) ELSE s
RECURSIVE TrimEnd(_)
TrimEnd(s) ==
  IF s # <<>> /\ s[Len(s)] \in WhiteSpace THEN TrimEnd(SubSeq(s, 1, Len(s) - 1)) ELSE s
Trim(s) == TrimEnd(TrimStart(s))

\* getTwoFactorConfig: the persisted configuration, None when there is none.
getTwoFactorConfig(did) == IF did \in DOMAIN twofa THEN Some(twofa[did]) ELSE None

\* setDefaultMethod that does not look for the type among the methods.
setDefaultMethod_NoLookup(did, type) ==
  IF did \notin DOMAIN twofa THEN [success |-> FALSE, twofa |-> twofa]
  ELSE [success |-> TRUE,
        twofa |-> MapPut(twofa, did, [twofa[did] EXCEPT !.defaultMethod = type])]

\* setDefaultMethod: fails without a configuration or when the type is not among
\* its methods, else saves the configuration with that default.
setDefaultMethod(did, type) ==
  IF did \notin DOMAIN twofa \/ ~getMethodConfig(twofa[did], type)
  THEN [success |-> FALSE, twofa |-> twofa]
  ELSE [success |-> TRUE,
        twofa |-> MapPut(twofa, did, [twofa[did] EXCEPT !.defaultMethod = type])]

\* GET /api/twofa/status for the session the cookie resolves to.
statusGET(session) ==
  IF ~session.some
  THEN [status |-> 401, enabled |-> FALSE, defaultMethod |-> "", enabledMethods |-> <<>>]
  ELSE LET config == getTwoFactorConfig(session.val.userDid) IN
       IF ~config.some \/ Len(config.val.methods) = 0
       THEN [status |-> 200, enabled |-> FALSE, defaultMethod |-> "", enabledMethods |-> <<>>]
       ELSE [status |-> 200, enabled |-> TRUE, defaultMethod |-> config.val.defaultMethod,
             enabledMethods |-> getEnabledMethods(config.val)]

(***************************************************************************)
(* Request handlers                                                        *)
(***************************************************************************)
\* appLast: the handler, the response status, whether the request came with the
\* cookie of a session with verified = false (the callback reads no session
\* cookie), and for the JSON endpoints the request: whether its cookie resolved
\* to a session, whether its X-CSRF-Token validated, and its body.  AppIdle is
\* its value when no request has been handled.
NoBody == [json |-> FALSE, method |-> "", code |-> <<>>, step |-> ""]
NoRequest == [authed |-> FALSE, csrfValid |-> FALSE, body |-> NoBody]
AppIdle == [op |-> "none", status |-> 0, unverified |-> FALSE, req |-> NoRequest]

\* getSessionFromCookie on the browser's cookie jar.
getSessionFromCookie == IF cookie.some THEN getUserSession(cookie.val) ELSE None

\* session.verified === false
Unverified(session) == session.some /\ session.val.verified = FALSE

\* What appLast keeps of a request to a JSON endpoint.
Request(session, csrf, body) ==
  [authed |-> session.some,
   csrfValid |-> csrf.valid = "true",
   body |-> body]

\* The OAuth callback after a successful token exchange: a user session, verified
\* unless the user has a two-factor configuration, and its signed ID as cookie.
Login(u) ==
  /\ RawIds \ usedIds # {}
  /\ createUserSession([userDid |-> u, verified |-> u \notin DOMAIN twofa])
  /\ cookie' = Some(sign(randomBytes))
  /\ appLast' = [op |-> "login", status |-> 307, unverified |-> FALSE, req |-> NoRequest]
  /\ UNCHANGED <<now, deleted, twofa, pending, passkeys, disableCalls, signedOut>>
  /\ UNCHANGED <<pureVars, csrfVars, rlVars>>

\* The value crypto.randomBytes gives the page's CSRF token.
PageNonces == {<<"n", "a">>}

\* The welcome page: redirects without a session or with an unverified one, else
\* renders with a fresh CSRF token.
Welcome(random) ==
  LET session == getSessionFromCookie IN
  /\ IF ~session.some \/ Unverified(session)
     THEN /\ appLast' = [op |-> "welcome", status |-> 307, unverified |-> Unverified(session),
                          req |-> NoRequest]
          /\ UNCHANGED csrfIssued
     ELSE /\ appLast' = [op |-> "welcome", status |-> 200, unverified |-> FALSE, req |-> NoRequest]
          /\ csrfIssued' = csrfIssued \cup {[token |-> generateCsrfToken(random), at |-> now]}
  /\ UNCHANGED <<now, csrfLast, twofa, pending, passkeys, cookie, disableCalls, signedOut>>
  /\ UNCHANGED <<sessVars, pureVars, rlVars>>

\* The signOut server action: deletes the cookie and redirects.
signOut ==
  /\ cookie' = None
  /\ signedOut' = IF cookie.some THEN signedOut \cup {cookie.val} ELSE signedOut
  /\ appLast' = [op |-> "signOut", status |-> 303,
                 unverified |-> Unverified(getSessionFromCookie), req |-> NoRequest]
  /\ UNCHANGED <<now, twofa, pending, passkeys, disableCalls>>
  /\ UNCHANGED <<sessVars, pureVars, csrfVars, rlVars>>

\* The request bodies: unparsable, or an object with method, code and step
\* ("" for an absent field).
DisableCodes == {<<>>, TotpNow, <<" ">> \o TotpNow, EmailOtp, WrongCode, <<"1">>}
DisableBodies ==
  {[json |-> FALSE, method |-> "", code |-> <<>>, step |-> ""]}
    \cup [json : {TRUE}, method : {"totp", "email"}, code : DisableCodes, step : {""}]
    \cup [json : {TRUE}, method : {"", "passkey"}, code : {<<>>}, step : {""}]
    \cup [json : {TRUE}, method : {"email", "passkey"}, code : {<<>>}, step : {"send-code"}]

\* A request: its body, and whether sendEmailOtp fails while it is handled
\* (only the send-code step sends mail).
DisableRequests ==
  [body : DisableBodies, mailFails : {FALSE}]
    \cup {[body |-> b, mailFails |-> TRUE] : b \in {x \in DisableBodies : x.step = "send-code"}}

\* The X-CSRF-Token headers: absent, a token a page was rendered with, such a
\* token with its last character or its signature replaced.
CsrfHeaders ==
  LET toks == {r.token : r \in csrfIssued}
  IN {None} \cup {Some(k) : k \in toks} \cup {Some(TamperLast(k)) : k \in toks}
       \cup {Some(WithNonAsciiHmac(k)) : k \in toks}

\* The header of a request with what the handlers' check of it,
\* !csrfToken || !validateCsrfToken(csrfToken), comes to: "true" when the check
\* lets the request through, "false" when it answers 403, "throws" when
\* validateCsrfToken throws.
CsrfRequests ==
  {[header |-> h, valid |-> IF h.some THEN validateCsrfToken(h.val) ELSE "false"] :
     h \in CsrfHeaders}

\* checkRateLimit(`twofa:${session.userDid}`, 10, 60000)
TwofaMaxRequests == 10
TwofaWindowMs == 60000
TwofaCall(did) ==
  [key |-> "twofa:" \o did, maxRequests |-> TwofaMaxRequests, windowMs |-> TwofaWindowMs]

\* A response that leaves the two-factor stores and the cookie as they are;
\* limited tells whether checkRateLimit was called.
disableKeep(status, limited) ==
  [status |-> status, limited |-> limited, twofa |-> twofa, pending |-> pending,
   passkeys |-> passkeys, refresh |-> FALSE]

\* The removal that saves a configuration without methods when none is left.
disableRemove_SavesEmpty(did, config, method) ==
  LET rest == SelectSeq(config.methods, LAMBDA m : m.type # method) IN
  [twofa |-> IF method # "" THEN MapPut(twofa, did, [config EXCEPT !.methods = rest])
             ELSE MapDel(twofa, did),
   passkeys |-> IF method = "passkey" THEN passkeys \ {did} ELSE passkeys]

\* The removal that deletes nothing when the last method is removed.
disableRemove_KeepsLast(did, config, method) ==
  LET updated == removeMethod(config, method) IN
  IF method # ""
  THEN [twofa |-> IF updated.some THEN MapPut(twofa, did, updated.val) ELSE twofa,
        passkeys |-> IF updated.some /\ method = "passkey"
                     THEN passkeys \ {did} ELSE passkeys]
  ELSE [twofa |-> MapDel(twofa, did), passkeys |-> passkeys]

\* The end of the disable handler: the named method is removed, or the whole
\* configuration when no method is named or none is left.
disableRemove(did, config, method) ==
  LET updated == removeMethod(config, method) IN
  IF method # ""
  THEN [twofa |-> IF updated.some THEN MapPut(twofa, did, updated.val)
                  ELSE MapDel(twofa, did),
        passkeys |-> IF updated.some /\ method = "passkey"
                     THEN passkeys \ {did} ELSE passkeys]
  ELSE [twofa |-> MapDel(twofa, did), passkeys |-> passkeys]

\* The disable handler from the parsed body on.
disableBody(did, config, body, mailFails) ==
  LET code == Trim(body.code)
      removed == disableRemove(did, config, body.method)
  IN
  IF body.method = "email" /\ body.step = "send-code"
  THEN IF ~getMethodConfig(config, "email") THEN disableKeep(400, TRUE)
       ELSE [status |-> IF mailFails THEN 500 ELSE 200, limited |-> TRUE, twofa |-> twofa,
             pending |-> MapPut(pending, did, [code |-> generateEmailOtp, purpose |-> "email-disable"]),
             passkeys |-> passkeys, refresh |-> FALSE]
  ELSE IF body.method = "totp" /\ ~getMethodConfig(config, "totp") THEN disableKeep(400, TRUE)
  ELSE IF body.method = "totp" /\ (code = <<>> \/ Len(code) # 6) THEN disableKeep(400, TRUE)
  ELSE IF body.method = "totp" /\ ~verifyTotpCode(code) THEN disableKeep(400, TRUE)
  ELSE IF body.method = "email" /\ (code = <<>> \/ Len(code) # 6) THEN disableKeep(400, TRUE)
  ELSE IF body.method = "email" /\ ~verifyPendingCode(did, code) THEN disableKeep(400, TRUE)
  ELSE [status |-> 200, limited |-> TRUE, twofa |-> removed.twofa,
        pending |-> IF body.method = "email" THEN MapDel(pending, did) ELSE pending,
        passkeys |-> removed.passkeys, refresh |-> TRUE]

\* POST /api/twofa/disable: the response status and what the handler leaves in the
\* two-factor stores; refresh tells whether it sets a new session cookie.
disablePOST(session, csrf, body, mailFails) ==
  IF ~session.some THEN disableKeep(401, FALSE)
  ELSE IF csrf.valid # "true" THEN disableKeep(IF csrf.valid = "throws" THEN 500 ELSE 403, FALSE)
  ELSE IF ~checkRateLimit(TwofaCall(session.val.userDid).key, TwofaMaxRequests, TwofaWindowMs).allowed
       THEN disableKeep(429, TRUE)
  ELSE IF session.val.userDid \notin DOMAIN twofa THEN disableKeep(400, TRUE)
  ELSE IF ~body.json THEN disableKeep(400, TRUE)
  ELSE disableBody(session.val.userDid, twofa[session.val.userDid], body, mailFails)

\* The number of requests the disable handler serves.
MaxDisableCalls == 2

\* createUserSessionCookie: a user session holding the data; the cookie it
\* returns has the session's signed ID, sign(randomBytes), as value.
createUserSessionCookie(data) == createUserSession(data)

\* session is the session the request's cookie resolves to.
DisablePost(session, csrf, req) ==
  /\ disableCalls < MaxDisableCalls
  /\ disableCalls' = disableCalls + 1
  /\ \E o \in {disablePOST(session, csrf, req.body, req.mailFails)} :
       /\ o.refresh => RawIds \ usedIds # {}
       /\ IF o.limited THEN rateLimitCall(TwofaCall(session.val.userDid)) ELSE UNCHANGED rlVars
       /\ twofa' = o.twofa
       /\ pending' = o.pending
       /\ passkeys' = o.passkeys
       /\ IF o.refresh
          THEN /\ createUserSessionCookie([userDid |-> session.val.userDid, verified |-> TRUE])
               /\ cookie' = Some(sign(randomBytes))
               /\ UNCHANGED deleted
          ELSE UNCHANGED <<sessVars, cookie>>
       /\ appLast' = [op |-> "disable", status |-> o.status, unverified |-> Unverified(session),
                      req |-> Request(session, csrf, req.body)]
       /\ UNCHANGED <<now, signedOut>>
       /\ UNCHANGED <<pureVars, csrfVars>>

\* The bodies sent to set-default: unparsable, or an object with a method
\* ("" for none, "sms" for a value that is no method).
SetDefaultBodies ==
  {NoBody} \cup [json : {TRUE}, method : Methods \cup {"", "sms"}, code : {<<>>}, step : {""}]

VALID_METHODS == <<"totp", "email", "passkey">>

\* set-default answering success whatever setDefaultMethod returned.
setDefaultPOST_IgnoresResult(session, csrf, body) ==
  IF ~session.some THEN [status |-> 401, twofa |-> twofa]
  ELSE IF csrf.valid # "true"
       THEN [status |-> IF csrf.valid = "throws" THEN 500 ELSE 403, twofa |-> twofa]
  ELSE IF ~body.json THEN [status |-> 400, twofa |-> twofa]
  ELSE IF body.method = "" \/ body.method \notin Range(VALID_METHODS)
       THEN [status |-> 400, twofa |-> twofa]
  ELSE [status |-> 200, twofa |-> setDefaultMethod(session.val.userDid, body.method).twofa]

\* POST /api/twofa/set-default: the response status and the configurations it leaves.
setDefaultPOST(session, csrf, body) ==
  IF ~session.some THEN [status |-> 401, twofa |-> twofa]
  ELSE IF csrf.valid # "true"
       THEN [status |-> IF csrf.valid = "throws" THEN 500 ELSE 403, twofa |-> twofa]
  ELSE IF ~body.json THEN [status |-> 400, twofa |-> twofa]
  ELSE IF body.method = "" \/ body.method \notin Range(VALID_METHODS)
       THEN [status |-> 400, twofa |-> twofa]
  ELSE LET result == setDefaultMethod(session.val.userDid, body.method) IN
       IF ~result.success THEN [status |-> 400, twofa |-> twofa]
       ELSE [status |-> 200, twofa |-> result.twofa]

SetDefaultPost(session, csrf, body) ==
  \E o \in {setDefaultPOST(session, csrf, body)} :
    /\ twofa' = o.twofa
    /\ appLast' = [op |-> "setDefault", status |-> o.status,
                   unverified |-> Unverified(session), req |-> Request(session, csrf, body)]
    /\ UNCHANGED <<now, pending, passkeys, cookie, disableCalls, signedOut>>
    /\ UNCHANGED <<sessVars, pureVars, csrfVars, rlVars>>

\* GET /api/twofa/status.
StatusGet(session) ==
  /\ appLast' = [op |-> "status", status |-> statusGET(session).status,
                 unverified |-> Unverified(session), req |-> NoRequest]
  /\ UNCHANGED <<now, twofa, pending, passkeys, cookie, disableCalls, signedOut>>
  /\ UNCHANGED <<sessVars, pureVars, csrfVars, rlVars>>

\* Both handlers answer a request without a session or without a valid CSRF
\* token before they read its body: such a request is drawn with one body.
BodiesRead(session, csrf, bodies, unread) ==
  IF session.some /\ csrf.valid = "true" THEN bodies ELSE {unread}

AppNext ==
  \/ \E u \in Users : Login(u)
  \/ \E random \in PageNonces : Welcome(random)
  \/ signOut
  \/ \E session \in {getSessionFromCookie} :
       \E csrf \in CsrfRequests :
         \E req \in BodiesRead(session, csrf, DisableRequests, [body |-> NoBody, mailFails |-> FALSE]) :
           DisablePost(session, csrf, req)
  \/ \E session \in {getSessionFromCookie} :
       \E csrf \in CsrfRequests :
         \E body \in BodiesRead(session, csrf, SetDefaultBodies, NoBody) :
           SetDefaultPost(session, csrf, body)
  \/ \E session \in {getSessionFromCookie} : StatusGet(session)

(***************************************************************************)
(* The persisted two-factor configuration of one user under the operations *)
(* that change it: enrolling a method (addMethod and save), the removal at *)
(* the end of the disable handler, and setDefaultMethod.                   *)
(***************************************************************************)
TfUser == "did:a"

\* The methods enrolled: each type with either of two stamps.
TfMethods == {Method(type, enabledAt) : type \in Methods, enabledAt \in {1, 2}}

\* tfLast when no operation has run.
TfIdle == [op |-> "none", before |-> None, arg |-> Method("", 0), result |-> None]

\* Enrolling a method: saveTwoFactorConfig(did, addMethod(getTwoFactorConfig(did), m)).
TfAddMethod(m) ==
  LET before == getTwoFactorConfig(TfUser)
      config == addMethod(before, m)
  IN
  /\ twofa' = MapPut(twofa, TfUser, config)
  /\ passkeys' = IF m.type = "passkey" THEN passkeys \cup {TfUser} ELSE passkeys
  /\ tfLast' = [op |-> "addMethod", before |-> before, arg |-> m, result |-> Some(config)]
  /\ UNCHANGED <<pending, cookie, disableCalls, signedOut, appLast, disReqs>>
  /\ UNCHANGED nonTwofaVars

\* The removal a disable request that passed its checks ends with; result is
\* what removeMethod returned (None for null, and when no method is named).
TfDisable(method) ==
  /\ TfUser \in DOMAIN twofa
  /\ LET removed == disableRemove(TfUser, twofa[TfUser], method) IN
       /\ twofa' = removed.twofa
       /\ passkeys' = removed.passkeys
  /\ tfLast' = [op |-> "disable", before |-> Some(twofa[TfUser]), arg |-> Method(method, 0),
                result |-> IF method = "" THEN None ELSE removeMethod(twofa[TfUser], method)]
  /\ UNCHANGED <<pending, cookie, disableCalls, signedOut, appLast, disReqs>>
  /\ UNCHANGED nonTwofaVars

TfSetDefault(type) ==
  LET r == setDefaultMethod(TfUser, type) IN
  /\ twofa' = r.twofa
  /\ tfLast' = [op |-> "setDefault", before |-> getTwoFactorConfig(TfUser),
                arg |-> Method(type, 0),
                result |-> IF r.success THEN Some(r.twofa[TfUser]) ELSE None]
  /\ UNCHANGED <<pending, passkeys, cookie, disableCalls, signedOut, appLast, disReqs>>
  /\ UNCHANGED nonTwofaVars

\* How many disable requests are served side by side or one after another.
MaxRaceRequests == 3

\* POST /api/twofa/disable up to `await request.json()`, for a request with a
\* valid session and CSRF token that the rate limiter lets through: the
\* handler has read the user's configuration and is suspended; the request
\* carries the proof its method asks for (a current TOTP code, a fresh email
\* code, nothing for passkey).
DisableRead(method) ==
  /\ Len(disReqs) < MaxRaceRequests
  /\ LET config == getTwoFactorConfig(TfUser) IN
     disReqs' = Append(disReqs,
       IF ~config.some
       THEN [pc |-> "done", method |-> method, config |-> config, status |-> 400]
       ELSE IF method = "totp" /\ ~getMethodConfig(config.val, "totp")
       THEN [pc |-> "done", method |-> method, config |-> config, status |-> 400]
       ELSE [pc |-> "read", method |-> method, config |-> config, status |-> 0])
  /\ UNCHANGED <<twofa, pending, passkeys, cookie, disableCalls, signedOut, appLast, tfLast>>
  /\ UNCHANGED nonTwofaVars

\* The same request from the parsed body to its response: removeMethod is
\* applied to the configuration read before the await, and the result is
\* saved, or the configuration deleted.
DisableFinish(k) ==
  /\ k \in 1..Len(disReqs)
  /\ disReqs[k].pc = "read"
  /\ \E removed \in {disableRemove(TfUser, disReqs[k].config.val, disReqs[k].method)} :
       /\ twofa' = removed.twofa
       /\ passkeys' = removed.passkeys
  /\ disReqs' = [disReqs EXCEPT ![k] = [@ EXCEPT !.pc = "done", !.status = 200]]
  /\ UNCHANGED <<pending, cookie, disableCalls, signedOut, appLast, tfLast>>
  /\ UNCHANGED nonTwofaVars

DisableRaceNext ==
  \/ \E method \in Methods \cup {""} : DisableRead(method)
  \/ \E k \in 1..MaxRaceRequests : DisableFinish(k)

\* C35: when two disable requests that removed different methods have both
\* answered success, the persisted configuration holds neither method,
\* however their steps were interleaved.
C35_NoWriteBack ==
  \A i, j \in 1..Len(disReqs) :
    (/\ disReqs[i].pc = "done" /\ disReqs[i].status = 200
     /\ disReqs[j].pc = "done" /\ disReqs[j].status = 200
     /\ disReqs[i].method \in Methods /\ disReqs[j].method \in Methods
     /\ disReqs[i].method # disReqs[j].method)
      => (TfUser \in DOMAIN twofa =>
            /\ ~getMethodConfig(twofa[TfUser], disReqs[i].method)
            /\ ~getMethodConfig(twofa[TfUser], disReqs[j].method))

TwofaNext ==
  \/ \E m \in TfMethods : TfAddMethod(m)
  \/ \E method \in Methods \cup {""} : TfDisable(method)
  \/ \E type \in Methods : TfSetDefault(type)

(***************************************************************************)
(* Two-factor configuration: properties                                    *)
(***************************************************************************)
\* The types of a configuration's methods, as a set.
TypesOf(config) == Range(getEnabledMethods(config))

\* C12: a persisted configuration has at least one method, at most one method
\* per type, and a defaultMethod that is the type of one of its methods.
C12_ConfigWellFormed ==
  \A d \in DOMAIN twofa :
    LET c == twofa[d] IN
    /\ Len(c.methods) > 0
    /\ \A i, j \in 1..Len(c.methods) : c.methods[i].type = c.methods[j].type => i = j
    /\ c.defaultMethod \in TypesOf(c)

\* The default method was removed and a configuration with another default remains.
C12_Witness ==
  /\ tfLast.op = "disable"
  /\ tfLast.before.val.defaultMethod = tfLast.arg.type
  /\ TfUser \in DOMAIN twofa
  /\ twofa[TfUser].defaultMethod # tfLast.arg.type

\* C13: addMethod(null, m) is {version: 2, defaultMethod: m.type, methods: [m]};
\* addMethod(config, m) with no method of m.type appends m and leaves
\* defaultMethod and the existing methods as they were, so getEnabledMethods
\* lists the types in insertion order.
C13_AddMethodAppends ==
  tfLast.op = "addMethod" =>
    LET b == tfLast.before
        m == tfLast.arg
        r == tfLast.result.val
    IN
    /\ ~b.some => r = [version |-> 2, defaultMethod |-> m.type, methods |-> <<m>>]
    /\ (b.some /\ m.type \notin TypesOf(b.val)) =>
         /\ Len(r.methods) = Len(b.val.methods) + 1
         /\ r.methods[Len(r.methods)] = m
         /\ \A i \in 1..Len(b.val.methods) : r.methods[i] = b.val.methods[i]
         /\ r.defaultMethod = b.val.defaultMethod
         /\ r.version = b.val.version
         /\ getEnabledMethods(r) = Append(getEnabledMethods(b.val), m.type)

\* A third method was appended to a configuration whose default is not its first method.
C13_Witness ==
  /\ tfLast.op = "addMethod"
  /\ tfLast.before.some
  /\ tfLast.arg.type \notin TypesOf(tfLast.before.val)
  /\ Len(tfLast.result.val.methods) = 3
  /\ tfLast.before.val.defaultMethod # tfLast.before.val.methods[1].type

C15_LastRemovalDeletes ==
  (tfLast.op = "disable" /\ tfLast.arg.type # "") =>
    LET b == tfLast.before.val IN
    /\ ~tfLast.result.some <=> TypesOf(b) \subseteq {tfLast.arg.type}
    /\ ~tfLast.result.some =>
         /\ TfUser \notin DOMAIN twofa
         /\ ~statusGET(Some([userDid |-> TfUser, verified |-> TRUE])).enabled
    /\ tfLast.result.some =>
         /\ TfUser \in DOMAIN twofa
         /\ twofa[TfUser] = tfLast.result.val
         /\ statusGET(Some([userDid |-> TfUser, verified |-> TRUE])).enabled

\* The only method left was removed by naming it.
C15_Witness ==
  /\ tfLast.op = "disable"
  /\ tfLast.arg.type # ""
  /\ TypesOf(tfLast.before.val) = {tfLast.arg.type}
  /\ ~tfLast.result.some
  /\ TfUser \notin DOMAIN twofa

\* C16: when removeMethod leaves a method, the remaining methods keep their
\* order; the default becomes the first remaining method's type if the removed
\* type was the default, and is unchanged otherwise.
C16_RemoveMethodDefault ==
  (tfLast.op = "disable" /\ tfLast.result.some) =>
    LET b == tfLast.before.val
        type == tfLast.arg.type
        r == tfLast.result.val
    IN
    /\ r.methods = SelectSeq(b.methods, LAMBDA m : m.type # type)
    /\ b.defaultMethod = type => r.defaultMethod = r.methods[1].type
    /\ b.defaultMethod # type => r.defaultMethod = b.defaultMethod

\* The default was removed from the middle of three methods.
C16_Witness ==
  /\ tfLast.op = "disable"
  /\ tfLast.result.some
  /\ Len(tfLast.before.val.methods) = 3
  /\ tfLast.before.val.methods[2].type = tfLast.arg.type
  /\ tfLast.before.val.defaultMethod = tfLast.arg.type
  /\ tfLast.result.val.defaultMethod = tfLast.before.val.methods[1].type

(***************************************************************************)
(* Request handlers: properties                                            *)
(***************************************************************************)
\* The cookie resolves to a session with verified = true.
CookieVerified ==
  /\ getSessionFromCookie.some
  /\ getSessionFromCookie.val.verified

\* C33: the disable handler and the send-transaction handler answer 401 to a
\* request without a valid session and 403 to a request with a session whose
\* X-CSRF-Token is missing or does not validate; a request answered 401 or 403
\* has taken no rate-limit token, its body was not read (the response is the
\* same whatever the body), and the two-factor stores and the daily totals
\* are as they were.
C33_ChecksInOrder ==
  [][/\ (appLast'.op = "disable" /\ disableCalls' # disableCalls) =>
          (/\ (~appLast'.req.authed) => (appLast'.status = 401)
           /\ (appLast'.req.authed /\ ~appLast'.req.csrfValid) => (appLast'.status = 403)
           /\ (appLast'.status \in {401, 403}) =>
                (/\ buckets' = buckets
                 /\ twofa' = twofa /\ pending' = pending /\ passkeys' = passkeys
                 /\ dailyTotals' = dailyTotals
                 /\ \A csrf \in CsrfRequests : \A req \in DisableRequests :
                      \E o \in {disablePOST(getSessionFromCookie, csrf, req.body, req.mailFails)} :
                        (o.status \in {401, 403}) => (o = disableKeep(o.status, FALSE))))
     /\ (txLast'.status \in {401, 403}) =>
          (/\ buckets' = buckets
           /\ dailyTotals' = dailyTotals /\ twofa' = twofa
           /\ txReqs[txLast'.slot].pc = "idle" /\ txReqs'[txLast'.slot].pc = "idle")]_vars

C2_UnverifiedChangesNothing ==
  [][appLast'.unverified => (twofa' = twofa /\ ~CookieVerified')]_vars

\* C5: a signed session ID that was in the cookie when signOut completed no
\* longer resolves through getUserSession.
C5_SignOutDeletesSession ==
  \A s \in signedOut : ~getUserSession(s).some

\* A step removes the method of this type from the configuration of did.
MethodRemoved(did, type) ==
  /\ did \in DOMAIN twofa
  /\ type \in TypesOf(twofa[did])
  /\ did \notin DOMAIN twofa' \/ type \notin TypesOf(twofa'[did])

\* C17: a set-default request that passed the session, CSRF and body checks
\* and names a type that is not among the user's methods is answered 400 and
\* leaves every configuration as it was; one that names a method of the user
\* is answered 200 and changes the defaultMethod of that user's configuration
\* to the type and nothing else.
C17_SetDefaultOnlyEnabled ==
  [][(/\ appLast'.op = "setDefault"
      /\ appLast'.req.authed
      /\ appLast'.req.csrfValid
      /\ appLast'.req.body.json
      /\ appLast'.req.body.method \in Methods)
     => LET did == getSessionFromCookie.val.userDid
            type == appLast'.req.body.method
        IN
        IF did \in DOMAIN twofa /\ type \in TypesOf(twofa[did])
        THEN /\ appLast'.status = 200
             /\ twofa' = [twofa EXCEPT ![did].defaultMethod = type]
             /\ twofa'[did].methods = twofa[did].methods
        ELSE /\ appLast'.status = 400
             /\ twofa' = twofa]_vars

\* A set-default request for a type the user, who has a configuration, does not
\* have was answered 400.
C17_Witness ==
  /\ appLast.op = "setDefault"
  /\ appLast.status = 400
  /\ appLast.req.authed
  /\ appLast.req.csrfValid
  /\ appLast.req.body.method \in Methods
  /\ getSessionFromCookie.some
  /\ getSessionFromCookie.val.userDid \in DOMAIN twofa
  /\ appLast.req.body.method \notin TypesOf(twofa[getSessionFromCookie.val.userDid])
  /\ getSessionFromCookie.val.userDid \in DOMAIN TwofaEnrolled
  /\ twofa[getSessionFromCookie.val.userDid].defaultMethod
       = TwofaEnrolled[getSessionFromCookie.val.userDid].defaultMethod

\* C18: a disable request removes a TOTP method only when it carries the
\* currently valid TOTP code, and an email method only when it carries the
\* code pending for the user, whatever its body.
C18_RemovalNeedsProof ==
  [][appLast'.op = "disable"
     => \A did \in DOMAIN twofa :
          /\ MethodRemoved(did, "totp") => verifyTotpCode(Trim(appLast'.req.body.code))
          /\ MethodRemoved(did, "email")
               => verifyPendingCode(did, Trim(appLast'.req.body.code))]_vars

\* The persisted two-factor state: configurations, pending email codes and
\* passkey credentials.
Persisted == <<twofa, pending, passkeys>>

\* C19: a disable or set-default request changes persisted two-factor state
\* only when it has a session, a valid X-CSRF-Token and a rate-limit check that
\* it passed (a passed check takes a token from the user's bucket).
C19_MutationsGated ==
  [][(appLast'.op \in {"disable", "setDefault"} /\ Persisted' # Persisted)
     => /\ appLast'.req.authed
        /\ appLast'.req.csrfValid
        /\ buckets' # buckets
        /\ rlLast'.allowed]_vars

(***************************************************************************)
(* Library functions on drawn inputs: sanitizeForLog (lib/ratelimit.ts),    *)
(* resolveHandleToDid and resolveDidToPds (lib/auth) with the outcomes of   *)
(* their fetch calls as inputs.                                             *)
(***************************************************************************)
\* String.prototype.startsWith, endsWith, includes (of one character).
StartsWith(s, p) == Len(s) >= Len(p) /\ SubSeq(s, 1, Len(p)) = p
EndsWith(s, p) == Len(s) >= Len(p) /\ SubSeq(s, Len(s) - Len(p) + 1, Len(s)) = p
Includes(s, c) == \E i \in 1..Len(s) : s[i] = c

\* n copies of the character c.
Repeat(c, n) == [i \in 1..n |-> c]

DidPrefix == <<"d", "i", "d", ":">>
Ellipsis == <<".", ".", ".">>
\* What a template literal makes of undefined.
Undefined == <<"u", "n", "d", "e", "f", "i", "n", "e", "d">>

\* sanitizeForLog that shortens from 20 characters on.
sanitizeForLog_ShortensAt20(value) ==
  IF value = <<>> THEN <<>>
  ELSE IF StartsWith(value, DidPrefix)
       THEN IF Len(value) > 16 THEN SubSeq(value, 1, 16) \o Ellipsis ELSE value
  ELSE IF Includes(value, "@")
       THEN LET parts == Split(value, "@") IN
            (IF parts[1] = <<>> THEN Undefined ELSE <<parts[1][1]>>)
              \o <<"*", "*", "*", "@">> \o parts[2]
  ELSE IF Len(value) >= 20
       THEN SubSeq(value, 1, 10) \o Ellipsis \o SubSeq(value, Len(value) - 3, Len(value))
  ELSE value

\* sanitizeForLog: a DID keeps 16 characters, an address the first character of
\* its local part and its domain, another string of more than 20 characters its
\* first 10 and last 4.
sanitizeForLog(value) ==
  IF value = <<>> THEN <<>>
  ELSE IF StartsWith(value, DidPrefix)
       THEN IF Len(value) > 16 THEN SubSeq(value, 1, 16) \o Ellipsis ELSE value
  ELSE IF Includes(value, "@")
       THEN LET parts == Split(value, "@") IN
            (IF parts[1] = <<>> THEN Undefined ELSE <<parts[1][1]>>)
              \o <<"*", "*", "*", "@">> \o parts[2]
  ELSE IF Len(value) > 20
       THEN SubSeq(value, 1, 10) \o Ellipsis \o SubSeq(value, Len(value) - 3, Len(value))
  ELSE value

\* The longest value drawn.
MaxLogLen == 22

\* The values drawn: plain strings, DIDs and addresses of every length up to
\* MaxLogLen, an address without a local part and one with two '@'.
LogValues ==
  {Repeat("x", n) : n \in 0..MaxLogLen}
    \cup {DidPrefix \o Repeat("x", n) : n \in 0..(MaxLogLen - 4)}
    \cup {Repeat("a", i) \o <<"@">> \o Repeat("b", n) : i \in 0..2, n \in 0..(MaxLogLen - 3)}
    \cup {<<"a", "@", "b", "@", "c">>}

\* The DIDs drawn: one of each supported method and one of another.
DidPlc == <<"d", "i", "d", ":", "p", "l", "c", ":", "x">>
DidWeb == <<"d", "i", "d", ":", "w", "e", "b", ":", "h">>
DidKey == <<"d", "i", "d", ":", "k", "e", "y", ":", "z">>

\* What the fetch of the public resolveHandle endpoint comes to: it rejects, or
\* a response that is OK or not, whose body parses as JSON or not, with a did
\* field ("" when it is missing).
XrpcResponses ==
  { [throws |-> TRUE, ok |-> FALSE, json |-> FALSE, did |-> <<>>],
    [throws |-> FALSE, ok |-> FALSE, json |-> TRUE, did |-> DidPlc],
    [throws |-> FALSE, ok |-> TRUE, json |-> FALSE, did |-> <<>>],
    [throws |-> FALSE, ok |-> TRUE, json |-> TRUE, did |-> <<>>],
    [throws |-> FALSE, ok |-> TRUE, json |-> TRUE, did |-> DidPlc] }

\* The bodies of https://{handle}/.well-known/atproto-did.
WellKnownTexts ==
  { <<>>,
    <<" ", "\n">>,
    DidWeb,
    <<"\n", " ">> \o DidWeb \o <<" ", "\n">>,
    DidWeb \o <<"\r", "\n">> \o DidPlc,
    <<"x", "\n">> \o DidWeb,
    <<"x">> \o DidWeb }

\* What the fetch of the well-known document comes to.
WellKnownResponses ==
  { [throws |-> TRUE, ok |-> FALSE, text |-> <<>>],
    [throws |-> FALSE, ok |-> FALSE, text |-> DidWeb] }
    \cup [throws : {FALSE}, ok : {TRUE}, text : WellKnownTexts]

\* The fallback taking the first line of the untrimmed body.
wellKnownDid_NoOuterTrim(text) == Trim(Split(text, "\n")[1])

\* text.trim().split('\n')[0]?.trim()
wellKnownDid(text) == Trim(Split(Trim(text), "\n")[1])

\* resolveHandleToDid given the outcomes of its two fetches: success or not, the
\* DID, and the fetches made in order.
resolveHandleToDid(first, second) ==
  IF ~first.throws /\ first.ok /\ first.json /\ first.did # <<>>
  THEN [ok |-> TRUE, did |-> first.did, fetches |-> <<"resolveHandle">>]
  ELSE IF ~second.throws /\ second.ok /\ StartsWith(wellKnownDid(second.text), DidPrefix)
  THEN [ok |-> TRUE, did |-> wellKnownDid(second.text),
        fetches |-> <<"resolveHandle", "well-known">>]
  ELSE [ok |-> FALSE, did |-> <<>>, fetches |-> <<"resolveHandle", "well-known">>]

PdsType == "AtprotoPersonalDataServer"
PdsFragment == <<"#", "a", "t", "p", "r", "o", "t", "o", "_", "p", "d", "s">>

\* The entries of a DID document's service array, and the documents: without a
\* service array, or with one of up to MaxServices entries.
MaxServices == 2
ServiceEntries ==
  [type : {PdsType, "Other"},
   id : {DidPlc \o PdsFragment, PdsFragment \o <<"2">>},
   serviceEndpoint : {"", "https://pds1", "https://pds2"}]
RECURSIVE SeqsUpTo(_, _)
SeqsUpTo(S, n) ==
  IF n = 0 THEN {<<>>}
  ELSE LET shorter == SeqsUpTo(S, n - 1)
       IN shorter \cup {Append(s, x) : s \in {q \in shorter : Len(q) = n - 1}, x \in S}
DidDocuments == {None} \cup {Some(s) : s \in SeqsUpTo(ServiceEntries, MaxServices)}

\* What the fetch of the DID document comes to.
DocResponses ==
  { [throws |-> TRUE, ok |-> FALSE, json |-> FALSE, service |-> None],
    [throws |-> FALSE, ok |-> FALSE, json |-> TRUE, service |-> None],
    [throws |-> FALSE, ok |-> TRUE, json |-> FALSE, service |-> None] }
    \cup [throws : {FALSE}, ok : {TRUE}, json : {TRUE}, service : DidDocuments]

\* Array.prototype.find: the first element satisfying the test, None without one.
Find(s, Test(_)) ==
  LET hits == {i \in 1..Len(s) : Test(s[i])}
  IN IF hits = {} THEN None ELSE Some(s[CHOOSE i \in hits : \A j \in hits : i <= j])

\* The service test that looks at the type only.
IsPdsService_TypeOnly(s) == s.type = PdsType

\* s.type === 'AtprotoPersonalDataServer' && s.id.endsWith('#atproto_pds')
IsPdsService(s) == s.type = PdsType /\ EndsWith(s.id, PdsFragment)

\* resolveDidToPds given the outcome of its fetch: success or not, the endpoint,
\* and the fetches made.
resolveDidToPds(did, res) ==
  LET lookup == IF StartsWith(did, <<"d", "i", "d", ":", "p", "l", "c", ":">>) THEN "plc"
                ELSE IF StartsWith(did, <<"d", "i", "d", ":", "w", "e", "b", ":">>) THEN "web"
                ELSE "unsupported"
      failed(fetches) == [ok |-> FALSE, endpoint |-> "", fetches |-> fetches]
  IN
  IF lookup = "unsupported" THEN failed(<<>>)
  ELSE IF res.throws \/ ~res.ok \/ ~res.json THEN failed(<<lookup>>)
  ELSE IF ~res.service.some THEN failed(<<lookup>>)
  ELSE LET pdsService == Find(res.service.val, IsPdsService) IN
       IF ~pdsService.some \/ pdsService.val.serviceEndpoint = "" THEN failed(<<lookup>>)
       ELSE [ok |-> TRUE, endpoint |-> pdsService.val.serviceEndpoint, fetches |-> <<lookup>>]

\* fnLast when no function has been called; each behaviour makes one call.
FnIdle == [op |-> "none", arg |-> <<>>, res |-> <<>>]

ResolveHandleToDid(first, second) ==
  /\ fnLast = FnIdle
  /\ fnLast' = [op |-> "resolveHandleToDid", arg |-> [first |-> first, second |-> second],
                res |-> resolveHandleToDid(first, second)]
  /\ UNCHANGED nonFnVars

ResolveDidToPds(did, res) ==
  /\ fnLast = FnIdle
  /\ fnLast' = [op |-> "resolveDidToPds", arg |-> [did |-> did, res |-> res],
                res |-> resolveDidToPds(did, res)]
  /\ UNCHANGED nonFnVars

\* The characters the '.' of a regular expression does not match.
LineTerminators == {"\n", "\r"}

\* An address masked so that two characters of the local part show.
maskAddress_ShowsTwo(address) ==
  LET ats == {j \in 3..Len(address) :
                address[j] = "@" /\ \A k \in 1..(j - 1) : address[k] \notin LineTerminators}
  IN IF ats = {} THEN address
     ELSE SubSeq(address, 1, 2) \o <<"*", "*", "*", "@">>
            \o SubSeq(address, (CHOOSE j \in ats : \A k \in ats : k <= j) + 1, Len(address))

\* m.address.replace(/^(.).*@/, "$1***@"): the first character, "***@" and
\* what follows the last '@' that only characters matched by '.' precede; an
\* address the expression does not match is returned as it is.
maskAddress(address) ==
  LET ats == {j \in 2..Len(address) :
                address[j] = "@" /\ \A k \in 1..(j - 1) : address[k] \notin LineTerminators}
  IN IF ats = {} THEN address
     ELSE <<address[1]>> \o <<"*", "*", "*", "@">>
            \o SubSeq(address, (CHOOSE j \in ats : \A k \in ats : k <= j) + 1, Len(address))

\* The stored configurations the status endpoint is asked about, with the
\* secret material of their methods: a TOTP secret, or an address that a code
\* was mailed to when the method was enrolled.
StatusLocals == {<<"a">>, <<"a", "b">>, <<"a", "x", "y">>, <<"b", "b">>}
StatusDomains == {<<"b", ".", "c">>, <<"d", ".", "e">>}
StatusMethods ==
  {[type |-> "totp", secret |-> secret, enabledAt |-> 1] : secret \in {"JBSWY3DP", "KRUGKIDR"}}
    \cup {[type |-> "email", address |-> local \o <<"@">> \o domain, enabledAt |-> 2] :
            local \in StatusLocals, domain \in StatusDomains}
    \cup {[type |-> "passkey", enabledAt |-> 3]}
StatusMethodLists ==
  {ms \in UNION {[1..n -> StatusMethods] : n \in 1..Cardinality(Methods)} :
     \A i, j \in 1..Len(ms) : i # j => ms[i].type # ms[j].type}
StatusConfigs ==
  UNION {{[version |-> 2, defaultMethod |-> ms[k].type, methods |-> ms] : k \in 1..Len(ms)} :
           ms \in StatusMethodLists}

\* GET /api/twofa/status from the session and the configuration
\* getTwoFactorConfig returned: the status and the JSON body of the response.
statusResponse(session, config) ==
  IF ~session.some THEN [status |-> 401, body |-> [error |-> "Not authenticated"]]
  ELSE IF ~config.some \/ Len(config.val.methods) = 0
  THEN [status |-> 200, body |-> [enabled |-> FALSE]]
  ELSE [status |-> 200,
        body |-> [enabled |-> TRUE,
                  defaultMethod |-> config.val.defaultMethod,
                  methods |-> [i \in 1..Len(config.val.methods) |->
                                 LET m == config.val.methods[i] IN
                                 IF m.type = "email"
                                 THEN [type |-> m.type, address |-> maskAddress(m.address),
                                       enabledAt |-> m.enabledAt]
                                 ELSE [type |-> m.type, enabledAt |-> m.enabledAt]],
                  enabledMethods |-> getEnabledMethods(config.val)]]

StatusOf(session, config) ==
  /\ fnLast = FnIdle
  /\ fnLast' = [op |-> "status", arg |-> [session |-> session, config |-> config],
                res |-> statusResponse(session, config)]
  /\ UNCHANGED nonFnVars

SanitizeForLog(value) ==
  /\ fnLast = FnIdle
  /\ fnLast' = [op |-> "sanitizeForLog", arg |-> value, res |-> sanitizeForLog(value)]
  /\ UNCHANGED nonFnVars

FnNext ==
  \/ \E value \in LogValues : SanitizeForLog(value)
  \/ \E first \in XrpcResponses, second \in WellKnownResponses : ResolveHandleToDid(first, second)
  \/ \E did \in {DidPlc, DidWeb, DidKey}, res \in DocResponses : ResolveDidToPds(did, res)
  \/ \E session \in {None, Some([userDid |-> "did:a", verified |-> TRUE])} :
       \E config \in {None} \cup {Some(c) : c \in StatusConfigs} : StatusOf(session, config)

FirstAttemptOk(first) == ~first.throws /\ first.ok /\ first.json /\ first.did # <<>>

\* The first non-empty line of a text, trimmed; <<>> when every line is empty.
FirstNonEmptyLine(text) ==
  LET lines == Split(text, "\n")
      full == {i \in 1..Len(lines) : Trim(lines[i]) # <<>>}
  IN IF full = {} THEN <<>> ELSE Trim(lines[CHOOSE i \in full : \A j \in full : i <= j])

\* The fallback of resolveHandleToDid succeeded: an OK response whose first
\* non-empty line starts with "did:".
FallbackOk(second) ==
  ~second.throws /\ second.ok /\ StartsWith(FirstNonEmptyLine(second.text), DidPrefix)

C29_PdsFromPdsService ==
  fnLast.op = "resolveDidToPds" =>
    LET did == fnLast.arg.did
        doc == fnLast.arg.res
        res == fnLast.res
        supported == \/ StartsWith(did, <<"d", "i", "d", ":", "p", "l", "c", ":">>)
                     \/ StartsWith(did, <<"d", "i", "d", ":", "w", "e", "b", ":">>)
        entries == IF ~doc.throws /\ doc.ok /\ doc.json /\ doc.service.some
                   THEN {doc.service.val[i] : i \in 1..Len(doc.service.val)} ELSE {}
        pds == {s \in entries : s.type = PdsType /\ EndsWith(s.id, PdsFragment)}
    IN /\ ~supported => (~res.ok /\ res.fetches = <<>>)
       /\ supported => Len(res.fetches) = 1
       /\ res.ok => (res.endpoint # "" /\ \E s \in pds : s.serviceEndpoint = res.endpoint)
       /\ {s \in pds : s.serviceEndpoint # ""} = {} => ~res.ok

\* The endpoint came from the second entry, the first having the type but an id
\* that does not end with the fragment.
C29_Witness ==
  /\ fnLast.op = "resolveDidToPds"
  /\ fnLast.res.ok
  /\ Len(fnLast.arg.res.service.val) = 2
  /\ fnLast.arg.res.service.val[1].type = PdsType
  /\ ~EndsWith(fnLast.arg.res.service.val[1].id, PdsFragment)
  /\ fnLast.arg.res.service.val[1].serviceEndpoint = "https://pds1"
  /\ fnLast.res.endpoint = "https://pds2"

\* Two configurations that differ at most in secret material: the same
\* version, default and list of types and stamps, where a TOTP secret may
\* differ and an address may differ in its local part after the first character.
SameButSecrets(c, d) ==
  /\ c.version = d.version /\ c.defaultMethod = d.defaultMethod
  /\ Len(c.methods) = Len(d.methods)
  /\ \A i \in 1..Len(c.methods) :
       /\ c.methods[i].type = d.methods[i].type
       /\ c.methods[i].enabledAt = d.methods[i].enabledAt
       /\ (c.methods[i].type = "email") =>
            LET p == Split(c.methods[i].address, "@")
                q == Split(d.methods[i].address, "@")
            IN p[1][1] = q[1][1] /\ p[2] = q[2]

\* C39: the response of the status endpoint is the same for two configurations
\* that differ only in the TOTP secret or in an address's local part after
\* its first character: no method of the response has a field other than
\* type, enabledAt and, for email, the address as first character + ***@domain;
\* without a session the response is 401 with an error message only.
C39_StatusHidesSecrets ==
  (fnLast.op = "status") =>
    /\ (~fnLast.arg.session.some) =>
         fnLast.res = [status |-> 401, body |-> [error |-> "Not authenticated"]]
    /\ (fnLast.arg.session.some /\ fnLast.arg.config.some) =>
         /\ \A other \in StatusConfigs :
              SameButSecrets(fnLast.arg.config.val, other)
                => statusResponse(fnLast.arg.session, Some(other)) = fnLast.res
         /\ \A i \in 1..Len(fnLast.res.body.methods) :
              LET m == fnLast.arg.config.val.methods[i]
                  r == fnLast.res.body.methods[i]
              IN IF m.type = "email"
                 THEN /\ DOMAIN r = {"type", "address", "enabledAt"}
                      /\ r.address = <<m.address[1], "*", "*", "*", "@">>
                                        \o Split(m.address, "@")[2]
                 ELSE DOMAIN r = {"type", "enabledAt"}

\* The status of a configuration with a TOTP secret and an address whose local
\* part has three characters has been returned under a session, and another
\* configuration with another secret and a shorter local part is the same but
\* for its secrets.
C39_Witness ==
  /\ fnLast.op = "status"
  /\ fnLast.arg.session.some /\ fnLast.arg.config.some
  /\ fnLast.res.status = 200 /\ fnLast.res.body.enabled
  /\ \E i, j \in 1..Len(fnLast.arg.config.val.methods) :
       /\ fnLast.arg.config.val.methods[i].type = "totp"
       /\ fnLast.arg.config.val.methods[j].type = "email"
       /\ Len(Split(fnLast.arg.config.val.methods[j].address, "@")[1]) = 3
       /\ \E other \in StatusConfigs :
            /\ SameButSecrets(fnLast.arg.config.val, other)
            /\ other.methods[i].secret # fnLast.arg.config.val.methods[i].secret
            /\ Len(Split(other.methods[j].address, "@")[1]) = 1

(***************************************************************************)
(* oauth/login: the Pushed Authorization Request and its DPoP-nonce retry.  *)
(* A proof is kept as its header, its payload and the key that signed it;   *)
(* the encoding plays no part in what the handler does with a response.     *)
(***************************************************************************)
PAR_ENDPOINT == "https://pds/oauth/par"

\* The number of login requests served.
MaxLoginRequests == 2

\* createDpopProof with the jti crypto.randomUUID returned: nonce is in the
\* payload only when opts.nonce is truthy.
createDpopProof(opts, jti) ==
  [header |-> [alg |-> "ES256", typ |-> "dpop+jwt", jwk |-> opts.jwk],
   signedBy |-> opts.privateKey,
   payload |-> [jti |-> jti, htm |-> opts.method, htu |-> opts.url, iat |-> now \div 1000,
                nonce |-> IF opts.nonce.some /\ opts.nonce.val # <<>> THEN opts.nonce ELSE None]]

AUTH_ENDPOINT == "https://auth/oauth/authorize"
TOKEN_ENDPOINT == "https://pds/oauth/token"

\* The endpoints of an email login.
DefaultEndpoints ==
  [parEndpoint |-> PAR_ENDPOINT, authEndpoint |-> AUTH_ENDPOINT, tokenEndpoint |-> TOKEN_ENDPOINT]

\* What the fetch of the protected-resource metadata comes to: it throws (the
\* fetch rejects, the 5-second signal aborts it or the body is not JSON), or a
\* response that is OK or not with its first authorization server ("" for none).
PrResponses ==
  { [throws |-> TRUE, ok |-> FALSE, issuer |-> ""],
    [throws |-> FALSE, ok |-> FALSE, issuer |-> "https://as"],
    [throws |-> FALSE, ok |-> TRUE, issuer |-> ""],
    [throws |-> FALSE, ok |-> TRUE, issuer |-> "https://as"] }

\* What the fetch of the authorization-server metadata comes to ("" for a
\* missing endpoint).
AsResponses ==
  { [throws |-> TRUE, ok |-> FALSE, par |-> "", auth |-> "", token |-> ""],
    [throws |-> FALSE, ok |-> FALSE, par |-> "https://as/par", auth |-> "https://as/authorize",
     token |-> "https://as/token"] }
    \cup [throws : {FALSE}, ok : {TRUE}, par : {"", "https://as/par"},
          auth : {"", "https://as/authorize"}, token : {"", "https://as/token"}]

\* discoverOAuthEndpoints: the three endpoints, or a throw.
discoverOAuthEndpoints(pr, as) ==
  IF pr.throws \/ ~pr.ok \/ pr.issuer = "" THEN [ok |-> FALSE, endpoints |-> DefaultEndpoints]
  ELSE IF as.throws \/ ~as.ok THEN [ok |-> FALSE, endpoints |-> DefaultEndpoints]
  ELSE IF as.par = "" \/ as.auth = "" \/ as.token = ""
  THEN [ok |-> FALSE, endpoints |-> DefaultEndpoints]
  ELSE [ok |-> TRUE,
        endpoints |-> [parEndpoint |-> as.par, authEndpoint |-> as.auth, tokenEndpoint |-> as.token]]

\* What fetch(parEndpoint) comes to: it throws, or a response with a status, the
\* dpop-nonce header (absent, empty or a nonce) and a body that parses as JSON
\* or not; request_uri is the field of that name in a parsed body.
ParNonces == {None, Some(<<>>), Some(<<"n", "1">>), Some(<<"n", "2">>)}
ParThrows == [throws |-> TRUE, status |-> 0, nonce |-> None, json |-> FALSE, request_uri |-> ""]
ParResponses ==
  {ParThrows}
    \cup { [throws |-> FALSE, status |-> 200, nonce |-> n, json |-> j,
            request_uri |-> IF j THEN "urn:request:1" ELSE ""] :
           n \in {None, Some(<<"n", "1">>)}, j \in BOOLEAN }
    \cup [throws : {FALSE}, status : {400, 401}, nonce : ParNonces, json : BOOLEAN,
          request_uri : {""}]

\* Response.ok taken to mean anything but a server error.
ParOk_NotServerError(res) == res.status < 500

\* Response.ok
ParOk(res) == res.status \in 200..299

\* The retry on any 400, nonce or not.
retryWithNonce_AnyBadRequest(res) == res.status = 400

\* dpopNonce && parRes.status === 400
retryWithNonce(res) ==
  /\ res.nonce.some /\ res.nonce.val # <<>>
  /\ res.status = 400

\* generateCodeChallenge: the SHA-256 digest of the verifier, kept as a term.
generateCodeChallenge(verifier) == <<"S256", verifier>>

\* The query parameters of a login request: an email or none, and a handle as
\* typed.
LoginEmails == {"", "a@b.c"}
LoginHandles == {<<>>, <<"@">>, <<"a", ".", "t">>, <<"@", "a", ".", "t", " ">>}

\* (url.searchParams.get('handle') || '').replace(/^@/, '').trim()
cleanHandle(handle) ==
  Trim(IF handle # <<>> /\ Head(handle) = "@" THEN Tail(handle) ELSE handle)

\* generateDpopKeyPair: the n-th key pair generated, with the JWK exports of
\* its two halves.
generateDpopKeyPair(n) ==
  [privateKey |-> <<"key", n>>, publicJwk |-> <<"public", <<"key", n>>>>,
   privateJwk |-> <<"private", <<"key", n>>>>]
NoKeyPair == [privateKey |-> <<>>, publicJwk |-> <<>>, privateJwk |-> <<>>]

NoFlow == [state |-> <<>>, codeVerifier |-> <<>>, dpopPrivateJwk |-> <<>>, tokenEndpoint |-> ""]
NoBodyParams == [state |-> <<>>, code_challenge |-> <<>>]
NoLocation == [to |-> "", request_uri |-> "", login_hint |-> ""]

\* loginReq when no login request has been made.  pc is the await the request
\* is suspended at; disc lists the discovery calls that returned and whether
\* they threw; key and flow are what the handler generated for this request;
\* sent and bodies are the DPoP proofs and the bodies submitted, got the PAR
\* responses received; out tells how
\* the request ended: "authorize" for the redirect to the authorization
\* endpoint, "error" for the redirect to /?error=; cookie is the oauth_state
\* cookie of the response and location its redirect target.
LoginIdle ==
  [n |-> 0, pc |-> "idle", email |-> "", handle |-> <<>>, did |-> <<>>, pdsUrl |-> "",
   disc |-> <<>>, endpoints |-> DefaultEndpoints, key |-> NoKeyPair, flow |-> NoFlow,
   parBody |-> NoBodyParams, sent |-> <<>>, bodies |-> <<>>, got |-> <<>>, out |-> "none", cookie |-> None, location |-> NoLocation]

\* The request ends in the catch block or at a failed PAR: the redirect to the
\* login page with the message.
loginError(req) ==
  [req EXCEPT !.pc = "done", !.out = "error",
              !.location = [to |-> "/?error=", request_uri |-> "", login_hint |-> ""]]

\* The request ends with the redirect to the authorization endpoint and the
\* oauth_state cookie holding the serialized flow state.
loginAuthorize(req, res) ==
  [req EXCEPT !.pc = "done", !.out = "authorize",
              !.location = [to |-> req.endpoints.authEndpoint, request_uri |-> res.request_uri,
                            login_hint |-> req.email],
              !.cookie = Some(req.flow)]

\* Lines 37-73 of the handler: PKCE values, state and key pair are generated
\* (the n-th request's are tagged n), the first proof is built and the PAR is
\* submitted to the endpoint in use.
submitPar(req, endpoints) ==
  LET pair == generateDpopKeyPair(req.n)
      parBody == [state |-> <<"state", req.n>>,
                  code_challenge |-> generateCodeChallenge(<<"verifier", req.n>>)]
  IN [req EXCEPT !.pc = "par",
                 !.endpoints = endpoints,
                 !.key = pair,
                 !.flow = [state |-> <<"state", req.n>>, codeVerifier |-> <<"verifier", req.n>>,
                           dpopPrivateJwk |-> pair.privateJwk,
                           tokenEndpoint |-> endpoints.tokenEndpoint],
                 !.parBody = parBody,
                 !.sent = << createDpopProof([privateKey |-> pair.privateKey,
                                              jwk |-> pair.publicJwk, method |-> "POST",
                                              url |-> endpoints.parEndpoint,
                                              nonce |-> None], uuids + 1) >>,
                 !.bodies = << parBody >>]

\* GET /api/oauth/login up to its first await: with a handle that is the call of
\* resolveHandleToDid, without one the PAR submission to the default endpoint.
LoginGet(email, handle) ==
  /\ loginReq.pc \in {"idle", "done"}
  /\ loginReq.n < MaxLoginRequests
  /\ LET req == [LoginIdle EXCEPT !.n = loginReq.n + 1, !.email = email,
                                  !.handle = cleanHandle(handle)] IN
     IF req.handle # <<>>
     THEN loginReq' = [req EXCEPT !.pc = "handle"] /\ UNCHANGED uuids
     ELSE loginReq' = submitPar(req, DefaultEndpoints) /\ uuids' = uuids + 1
  /\ UNCHANGED nonParVars

\* resolveHandleToDid settles: both of its fetches carry a 5-second signal.
LoginResolveHandle(first, second) ==
  /\ loginReq.pc = "handle"
  /\ LET r == resolveHandleToDid(first, second)
         req == [loginReq EXCEPT !.disc = Append(@, [call |-> "resolveHandleToDid", ok |-> r.ok])]
     IN loginReq' = IF r.ok THEN [req EXCEPT !.pc = "pds", !.did = r.did] ELSE loginError(req)
  /\ UNCHANGED uuids
  /\ UNCHANGED nonParVars

\* resolveDidToPds settles: its fetch carries a 5-second signal.
LoginResolvePds(res) ==
  /\ loginReq.pc = "pds"
  /\ LET r == resolveDidToPds(loginReq.did, res)
         req == [loginReq EXCEPT !.disc = Append(@, [call |-> "resolveDidToPds", ok |-> r.ok])]
     IN loginReq' = IF r.ok THEN [req EXCEPT !.pc = "endpoints", !.pdsUrl = r.endpoint]
                    ELSE loginError(req)
  /\ UNCHANGED uuids
  /\ UNCHANGED nonParVars

\* discoverOAuthEndpoints settles (both fetches carry a 5-second signal); on
\* success the PAR is submitted to the discovered endpoint.
LoginDiscover(pr, as) ==
  /\ loginReq.pc = "endpoints"
  /\ LET r == discoverOAuthEndpoints(pr, as)
         req == [loginReq EXCEPT !.disc = Append(@, [call |-> "discoverOAuthEndpoints", ok |-> r.ok])]
     IN IF r.ok
        THEN loginReq' = submitPar(req, r.endpoints) /\ uuids' = uuids + 1
        ELSE loginReq' = loginError(req) /\ UNCHANGED uuids
  /\ UNCHANGED nonParVars

\* A handler whose retry signs with a key pair of its own.
ParResponse_FreshKey(res) ==
  /\ loginReq.pc = "par"
  /\ LET got == [loginReq EXCEPT !.got = Append(@, res)] IN
     IF res.throws
     THEN loginReq' = loginError(got) /\ UNCHANGED uuids
     ELSE IF ParOk(res)
     THEN /\ loginReq' = IF res.json THEN loginAuthorize(got, res) ELSE loginError(got)
          /\ UNCHANGED uuids
     ELSE IF retryWithNonce(res)
     THEN /\ uuids' = uuids + 1
          /\ \E pair \in {generateDpopKeyPair(got.n + MaxLoginRequests)} :
               loginReq' = [got EXCEPT !.pc = "retry",
                              !.sent = Append(@, createDpopProof([privateKey |-> pair.privateKey,
                                          jwk |-> pair.publicJwk, method |-> "POST",
                                          url |-> got.endpoints.parEndpoint,
                                          nonce |-> res.nonce], uuids + 1)),
                              !.bodies = Append(@, got.parBody)]
     ELSE loginReq' = loginError(got) /\ UNCHANGED uuids
  /\ UNCHANGED nonParVars

\* The first fetch of the PAR endpoint settles.  The fetch carries no signal:
\* nothing in the handler makes it settle.
ParResponse(res) ==
  /\ loginReq.pc = "par"
  /\ LET got == [loginReq EXCEPT !.got = Append(@, res)] IN
     IF res.throws
     THEN loginReq' = loginError(got) /\ UNCHANGED uuids
     ELSE IF ParOk(res)
     THEN /\ loginReq' = IF res.json THEN loginAuthorize(got, res) ELSE loginError(got)
          /\ UNCHANGED uuids
     ELSE IF retryWithNonce(res)
     THEN /\ uuids' = uuids + 1
          /\ \E pair \in {got.key} :
               loginReq' = [got EXCEPT !.pc = "retry",
                              !.sent = Append(@, createDpopProof([privateKey |-> pair.privateKey,
                                          jwk |-> pair.publicJwk, method |-> "POST",
                                          url |-> got.endpoints.parEndpoint,
                                          nonce |-> res.nonce], uuids + 1)),
                              !.bodies = Append(@, got.parBody)]
     ELSE loginReq' = loginError(got) /\ UNCHANGED uuids
  /\ UNCHANGED nonParVars

\* The second fetch settles; it carries no signal either.
ParRetryResponse(res) ==
  /\ loginReq.pc = "retry"
  /\ LET got == [loginReq EXCEPT !.got = Append(@, res)] IN
     loginReq' = IF ~res.throws /\ ParOk(res) /\ res.json THEN loginAuthorize(got, res)
                 ELSE loginError(got)
  /\ UNCHANGED uuids
  /\ UNCHANGED nonParVars

ParNext ==
  \/ \E email \in LoginEmails : \E handle \in LoginHandles : LoginGet(email, handle)
  \/ \E first \in XrpcResponses : \E second \in WellKnownResponses :
       LoginResolveHandle(first, second)
  \/ \E res \in DocResponses : LoginResolvePds(res)
  \/ \E pr \in PrResponses : \E as \in AsResponses : LoginDiscover(pr, as)
  \/ \E res \in ParResponses : ParResponse(res)
  \/ \E res \in ParResponses : ParRetryResponse(res)

(***************************************************************************)
(* oauth/login: properties                                                 *)
(***************************************************************************)
\* A response that is a nonce challenge: HTTP 400 with a dpop-nonce header that
\* holds a nonce (a header with an empty value holds none).
NonceChallenge(res) ==
  /\ ~res.throws
  /\ res.status = 400
  /\ res.nonce.some
  /\ res.nonce.val # <<>>

\* The response is a failure: the fetch threw or the status is not 2xx.
ParFailed(res) == res.throws \/ res.status < 200 \/ res.status > 299

\* C20: a login request submits the PAR at most twice; once the first response
\* is in, there is a second submission exactly when that response is a nonce
\* challenge; the first proof has no nonce, the second is a new proof (its own
\* jti) whose payload has the nonce of the challenge; and when the second
\* response is a failure too the request has ended with the error redirect
\* after two submissions.
C20_ParRetriedOnce ==
  /\ Len(loginReq.sent) <= 2
  /\ Len(loginReq.got) <= Len(loginReq.sent)
  /\ Len(loginReq.sent) >= 1 => ~loginReq.sent[1].payload.nonce.some
  /\ Len(loginReq.got) = 0 => Len(loginReq.sent) <= 1
  /\ Len(loginReq.got) >= 1 => (Len(loginReq.sent) = 2 <=> NonceChallenge(loginReq.got[1]))
  /\ Len(loginReq.sent) = 2
       => /\ loginReq.sent[2].payload.nonce = loginReq.got[1].nonce
          /\ loginReq.sent[2].payload.jti # loginReq.sent[1].payload.jti
          /\ loginReq.sent[2].header = loginReq.sent[1].header
          /\ loginReq.sent[2].payload.htu = loginReq.sent[1].payload.htu
  /\ (Len(loginReq.got) = 2 /\ ParFailed(loginReq.got[2]))
       => /\ loginReq.pc = "done"
          /\ loginReq.out = "error"
          /\ Len(loginReq.sent) = 2

\* The retry was answered by another nonce challenge and the request ended with
\* the error redirect.
C20_Witness ==
  /\ Len(loginReq.got) = 2
  /\ NonceChallenge(loginReq.got[1])
  /\ NonceChallenge(loginReq.got[2])
  /\ Len(loginReq.sent) = 2
  /\ loginReq.sent[2].payload.nonce = loginReq.got[1].nonce
  /\ loginReq.pc = "done"
  /\ loginReq.out = "error"

\* C21: a request that ended with the redirect to the authorization endpoint
\* has stored its flow state (state, codeVerifier, DPoP private JWK,
\* tokenEndpoint) in an OAuth session of the session store, its response does
\* not carry the flow state, and the redirect goes to the authorization endpoint
\* with the request_uri of the PAR response that succeeded.
C21_FlowInOAuthSession ==
  loginReq.out = "authorize" =>
    /\ \E id \in DOMAIN sessions :
         sessions[id].type = "oauth" /\ sessions[id].data = loginReq.flow
    /\ ~(loginReq.cookie.some /\ loginReq.cookie.val = loginReq.flow)
    /\ loginReq.location.to = loginReq.endpoints.authEndpoint
    /\ loginReq.location.request_uri = loginReq.got[Len(loginReq.got)].request_uri

\* A discovery call of the request threw.
DiscoveryFailed == \E i \in 1..Len(loginReq.disc) : ~loginReq.disc[i].ok

\* The request met a failure: a discovery call threw, the first PAR response is
\* a failure other than a nonce challenge, the retry failed, or the body of a
\* successful response did not parse.
LoginFailed ==
  \/ DiscoveryFailed
  \/ Len(loginReq.got) >= 1 /\ ParFailed(loginReq.got[1]) /\ ~NonceChallenge(loginReq.got[1])
  \/ Len(loginReq.got) = 2 /\ ParFailed(loginReq.got[2])
  \/ \E i \in 1..Len(loginReq.got) : ~ParFailed(loginReq.got[i]) /\ ~loginReq.got[i].json

\* C22: a login request that met a failure has ended with the redirect to the
\* login page with an error message, without an oauth_state cookie and with no
\* OAuth session in the store; when the failure was in the discovery, no PAR was
\* submitted.
C22_FailureRedirects ==
  /\ LoginFailed =>
       /\ loginReq.pc = "done"
       /\ loginReq.out = "error"
       /\ loginReq.location.to = "/?error="
       /\ loginReq.cookie = None
       /\ \A id \in DOMAIN sessions : sessions[id].type # "oauth"
  /\ DiscoveryFailed => loginReq.sent = <<>> /\ loginReq.got = <<>>

\* A handle login whose discovery succeeded, whose PAR was answered by a nonce
\* challenge and whose retry was rejected, has ended with the error redirect.
C22_Witness ==
  /\ Len(loginReq.disc) = 3
  /\ ~DiscoveryFailed
  /\ Len(loginReq.got) = 2
  /\ loginReq.got[2].status = 401
  /\ loginReq.got[2].json
  /\ loginReq.out = "error"
  /\ loginReq.cookie = None

\* C23: a login request that is waiting for a network call eventually ends
\* with a response, whether or not the remote server answers.
C23_LoginResponds ==
  (loginReq.pc \in {"handle", "pds", "endpoints", "par", "retry"}) ~> (loginReq.pc = "done")

\* C40: when a login request ends with the redirect to the authorization
\* endpoint, the flow state in its oauth_state cookie matches what was
\* submitted: every submission (the first and the nonce retry) went to one PAR
\* endpoint with one body, signed by one key whose public JWK is in the proof
\* header; the stored state is the state of that body, the stored codeVerifier
\* is the one whose S256 challenge is in that body, the stored private JWK is
\* the export of the signing key, and the stored tokenEndpoint comes from the
\* endpoint set of the PAR endpoint: the configured one without a handle, the
\* discovered one with a handle.
C40_FlowMatchesPar ==
  (loginReq.out = "authorize") =>
    /\ loginReq.cookie.some
    /\ Len(loginReq.sent) \in 1..2 /\ Len(loginReq.bodies) = Len(loginReq.sent)
    /\ LET f == loginReq.cookie.val
           first == loginReq.sent[1]
       IN /\ \A i \in 1..Len(loginReq.sent) :
               /\ loginReq.sent[i].signedBy = first.signedBy
               /\ loginReq.sent[i].header.jwk = <<"public", first.signedBy>>
               /\ loginReq.sent[i].payload.htu = first.payload.htu
               /\ loginReq.bodies[i] = loginReq.bodies[1]
          /\ loginReq.bodies[1].state = f.state
          /\ loginReq.bodies[1].code_challenge = <<"S256", f.codeVerifier>>
          /\ f.dpopPrivateJwk = <<"private", first.signedBy>>
          /\ IF loginReq.handle = <<>>
             THEN /\ first.payload.htu = PAR_ENDPOINT
                  /\ f.tokenEndpoint = TOKEN_ENDPOINT
                  /\ loginReq.location.to = AUTH_ENDPOINT
             ELSE \E as \in AsResponses :
                    /\ ~as.throws /\ as.ok
                    /\ first.payload.htu = as.par /\ as.par # PAR_ENDPOINT
                    /\ f.tokenEndpoint = as.token /\ as.token # TOKEN_ENDPOINT
                    /\ loginReq.location.to = as.auth

\* A login with a handle has ended with the redirect after a nonce retry: two
\* proofs were submitted and the cookie holds the discovered token endpoint.
C40_Witness ==
  /\ loginReq.out = "authorize"
  /\ loginReq.handle # <<>>
  /\ Len(loginReq.sent) = 2 /\ Len(loginReq.got) = 2
  /\ loginReq.sent[2].payload.nonce.some
  /\ loginReq.cookie.some /\ loginReq.cookie.val.tokenEndpoint # TOKEN_ENDPOINT
  /\ loginReq.n = MaxLoginRequests

(***************************************************************************)
(* api/wallet/send-transaction.  Amounts are counted in hundredths of an    *)
(* ETH.  A request runs without interruption from one await to the next;    *)
(* requests in flight take their steps in any order.                        *)
(***************************************************************************)
MAX_TX_AMOUNT == 10
MAX_DAILY_AMOUNT == 100

\* The length of a UTC day, which toISOString().split("T")[0] changes with.
DAY_MS == 86400000

\* How many requests are in flight at once, and how many windows pass.
MaxInFlight == 2
MaxTxTicks == 2

\* getTodayStr: the UTC date, as the number of the day.
getTodayStr == now \div DAY_MS

getDailyTotal(did) ==
  IF did \notin DOMAIN dailyTotals \/ dailyTotals[did].date # getTodayStr THEN 0
  ELSE dailyTotals[did].total

\* An addDailyTotal that adds to the entry of an earlier day instead of
\* starting the day at `amount`.
addDailyTotal_KeepsOldDay(did, amount) ==
  IF did \notin DOMAIN dailyTotals
  THEN MapPut(dailyTotals, did, [total |-> amount, date |-> getTodayStr])
  ELSE MapPut(dailyTotals, did, [total |-> dailyTotals[did].total + amount,
                                 date |-> getTodayStr])

\* The dailyTotals Map after addDailyTotal(did, amount).
addDailyTotal(did, amount) ==
  IF did \notin DOMAIN dailyTotals \/ dailyTotals[did].date # getTodayStr
  THEN MapPut(dailyTotals, did, [total |-> amount, date |-> getTodayStr])
  ELSE MapPut(dailyTotals, did, [dailyTotals[did] EXCEPT !.total = @ + amount])

\* dailyTotal + amountNum > MAX_DAILY_AMOUNT
OverDailyLimit(did, amountNum) == getDailyTotal(did) + amountNum > MAX_DAILY_AMOUNT

HexChars == {"0", "1", "2", "3", "4", "5", "6", "7", "8", "9", "a", "b", "c", "d", "e", "f",
             "A", "B", "C", "D", "E", "F"}

\* /^0x[0-9a-fA-F]{40}$/.test(to)
IsAddress(to) ==
  /\ Len(to) = 42
  /\ to[1] = "0" /\ to[2] = "x"
  /\ \A i \in 3..42 : to[i] \in HexChars

\* The session getSessionFromCookie resolves to, the X-CSRF-Token header and
\* whether it validates, and whether the wallet service is configured.
TxSessions == {None, Some([userDid |-> "did:a", verified |-> TRUE])}
TxCsrf == {[present |-> FALSE, valid |-> FALSE], [present |-> TRUE, valid |-> FALSE],
           [present |-> TRUE, valid |-> TRUE]}

\* Request bodies: unparsable, or {to, amount}; Number(amount) is None for NaN.
GoodAddress == <<"0", "x">> \o Repeat("a", 20) \o Repeat("F", 20)
TxBodies ==
  { [json |-> FALSE, to |-> <<>>, amount |-> Some(0)],
    [json |-> TRUE, to |-> <<>>, amount |-> Some(MAX_TX_AMOUNT)],
    [json |-> TRUE, to |-> <<"0", "x">> \o Repeat("a", 39) \o <<"g">>, amount |-> Some(MAX_TX_AMOUNT)],
    [json |-> TRUE, to |-> GoodAddress, amount |-> None],
    [json |-> TRUE, to |-> GoodAddress, amount |-> Some(-1)],
    [json |-> TRUE, to |-> GoodAddress, amount |-> Some(MAX_TX_AMOUNT + 1)],
    [json |-> TRUE, to |-> <<" ">> \o GoodAddress \o <<" ">>, amount |-> Some(MAX_TX_AMOUNT)] }

\* What the fetch of the wallet service comes to: it rejects, or a JSON response
\* that is OK or not.
WalletResponses ==
  { [throws |-> TRUE, ok |-> FALSE, status |-> 0],
    [throws |-> FALSE, ok |-> FALSE, status |-> 502],
    [throws |-> FALSE, ok |-> TRUE, status |-> 200] }

\* The rate-limit call of the handler.
TxCall(did) ==
  [key |-> "tx:" \o did, maxRequests |-> RATE_LIMIT_TX, windowMs |-> RATE_LIMIT_WINDOW_MS]

TxSlotIdle == [pc |-> "idle", did |-> "", to |-> <<>>, amount |-> 0]
TxIdle == [slot |-> 0, status |-> 0, error |-> "", retryAfter |-> 0]

\* Request i ends with a response.
txRespond(i, status, error, retryAfter) ==
  /\ txReqs' = [txReqs EXCEPT ![i] = TxSlotIdle]
  /\ txLast' = [slot |-> i, status |-> status, error |-> error, retryAfter |-> retryAfter]

\* POST up to `await request.json()`: session, CSRF token, rate limit and
\* configuration.  (The histories of the rate limiter are kept only in its own
\* specifications.)
TxPost(i, session, csrf, configured) ==
  /\ txReqs[i].pc = "idle"
  /\ \A j \in 1..(i - 1) : txReqs[j].pc # "idle"
  /\ IF ~session.some
     THEN txRespond(i, 401, "Not authenticated", 0) /\ UNCHANGED rlVars
     ELSE IF ~csrf.present \/ ~csrf.valid
     THEN txRespond(i, 403, "Invalid CSRF token", 0) /\ UNCHANGED rlVars
     ELSE /\ rateLimitStore(TxCall(session.val.userDid))
          /\ UNCHANGED <<rlHist, rlBurst, rlLast>>
          /\ \E rl \in {checkRateLimit(TxCall(session.val.userDid).key, RATE_LIMIT_TX,
                                       RATE_LIMIT_WINDOW_MS)} :
               IF ~rl.allowed
               THEN txRespond(i, 429, "Too many transactions", rl.retryAfter)
               ELSE IF ~configured
               THEN txRespond(i, 503, "Wallet service not configured", 0)
               ELSE /\ txReqs' = [txReqs EXCEPT ![i] = [TxSlotIdle EXCEPT !.pc = "body",
                                                           !.did = session.val.userDid]]
                    /\ txLast' = TxIdle
  /\ UNCHANGED <<now, dailyTotals, txAccepted>>
  /\ UNCHANGED nonTxVars

\* From the parsed body to `await fetch(walletUrl)`: address, amount,
\* per-transaction limit and daily limit.
TxBody(i, body) ==
  /\ txReqs[i].pc = "body"
  /\ LET to == Trim(body.to) IN
     IF ~body.json THEN txRespond(i, 400, "Invalid JSON", 0)
     ELSE IF ~IsAddress(to) THEN txRespond(i, 400, "Invalid Ethereum address", 0)
     ELSE IF ~body.amount.some \/ body.amount.val < 0
     THEN txRespond(i, 400, "Invalid amount", 0)
     ELSE IF body.amount.val > MAX_TX_AMOUNT
     THEN txRespond(i, 400, "Exceeds transaction limit", 0)
     ELSE IF OverDailyLimit(txReqs[i].did, body.amount.val)
     THEN txRespond(i, 400, "Exceeds daily limit", 0)
     ELSE /\ txReqs' = [txReqs EXCEPT ![i] = [@ EXCEPT !.pc = "wallet", !.to = to,
                                                       !.amount = body.amount.val]]
          /\ txLast' = TxIdle
  /\ UNCHANGED <<now, rlVars, dailyTotals, txAccepted>>
  /\ UNCHANGED nonTxVars

\* The sum of the amounts the wallet service accepted for did today, with
\* `amount` added.
acceptedAfter(did, amount) ==
  IF did \notin DOMAIN txAccepted \/ txAccepted[did].date # now \div DAY_MS
  THEN MapPut(txAccepted, did, [total |-> amount, date |-> now \div DAY_MS])
  ELSE MapPut(txAccepted, did, [txAccepted[did] EXCEPT !.total = @ + amount])

\* The wallet fetch settles: a rejection is not caught, a response that is not
\* OK is passed on, an OK response is recorded in the daily total.
TxWalletResponse(i, res) ==
  /\ txReqs[i].pc = "wallet"
  /\ IF res.throws
     THEN txRespond(i, 500, "fetch failed", 0) /\ UNCHANGED <<dailyTotals, txAccepted>>
     ELSE IF ~res.ok
     THEN txRespond(i, res.status, "wallet", 0) /\ UNCHANGED <<dailyTotals, txAccepted>>
     ELSE /\ dailyTotals' = addDailyTotal(txReqs[i].did, txReqs[i].amount)
          /\ txAccepted' = acceptedAfter(txReqs[i].did, txReqs[i].amount)
          /\ txRespond(i, 200, "", 0)
  /\ UNCHANGED <<now, rlVars>>
  /\ UNCHANGED nonTxVars

\* A rate-limit window passes, or a day.  (The sweep of the buckets is left to
\* the rate limiter's own specifications: with the one windowMs in use here it
\* removes only a bucket that the next call would find refilled completely.)
TxTickSteps == {RATE_LIMIT_WINDOW_MS, DAY_MS}
TxTimes == TimesWithin(TxTickSteps, MaxTxTicks)
TxTick(d) ==
  /\ now + d \in TxTimes
  /\ now' = now + d
  /\ txLast' = TxIdle
  /\ UNCHANGED <<rlVars, txReqs, dailyTotals, txAccepted>>
  /\ UNCHANGED nonTxVars

TxNext ==
  \/ \E i \in 1..MaxInFlight : \E session \in TxSessions : \E csrf \in TxCsrf :
       \E configured \in BOOLEAN : TxPost(i, session, csrf, configured)
  \/ \E i \in 1..MaxInFlight : \E body \in TxBodies : TxBody(i, body)
  \/ \E i \in 1..MaxInFlight : \E res \in WalletResponses : TxWalletResponse(i, res)
  \/ \E d \in TxTickSteps : TxTick(d)

(***************************************************************************)
(* send-transaction: properties                                            *)
(***************************************************************************)
\* C24: whatever the order in which the requests in flight take their steps,
\* the recorded total of a DID and the sum of the amounts the wallet service
\* accepted for it on one day never exceed MAX_DAILY_AMOUNT.
C24_DailyWithinLimit ==
  /\ \A did \in DOMAIN dailyTotals : dailyTotals[did].total <= MAX_DAILY_AMOUNT
  /\ \A did \in DOMAIN txAccepted : txAccepted[did].total <= MAX_DAILY_AMOUNT

\* C38: the daily totals change only in the step in which the wallet service
\* answers OK to a forwarded transaction, and then the total of that request's
\* DID for the day grows by exactly the forwarded amount; a response 401, 403, 429, 503, 400 or a wallet answer that is
\* not OK leaves the totals as they were; and a request goes to the wallet
\* service only with an address of the form 0x + 40 hex digits and an amount
\* from 0 to MAX_TX_AMOUNT.
C38_TotalsFrame ==
  [][/\ (dailyTotals' # dailyTotals) =>
          (\E i \in 1..MaxInFlight :
             /\ txLast'.status = 200 /\ txLast'.slot = i
             /\ txReqs[i].pc = "wallet"
             /\ \E did \in {txReqs[i].did} : \E amount \in {txReqs[i].amount} :
                  /\ getDailyTotal(did)' = getDailyTotal(did) + amount
                  /\ DOMAIN dailyTotals' = DOMAIN dailyTotals \cup {did})
     /\ (txLast'.status \in {401, 403, 429, 503, 400, 502}) => (dailyTotals' = dailyTotals)
     /\ \A i \in 1..MaxInFlight :
          (txReqs'[i].pc = "wallet") =>
            (/\ IsAddress(txReqs'[i].to)
             /\ 0 <= txReqs'[i].amount /\ txReqs'[i].amount <= MAX_TX_AMOUNT)]_vars

\* The wallet service has just answered OK to a DID that had spent the day
\* before and has a second request rejected with 400 meanwhile: its total for
\* the new day is the amount of this one transaction.
C38_Witness ==
  /\ txLast.status = 200
  /\ getTodayStr > 0
  /\ \E did \in DOMAIN dailyTotals :
       /\ dailyTotals[did] = [total |-> MAX_TX_AMOUNT, date |-> getTodayStr]
       /\ getDailyTotal(did) = MAX_TX_AMOUNT
       /\ \E i \in 1..MaxInFlight : txReqs[i].pc = "body" /\ txReqs[i].did = did

(***************************************************************************)
(* welcome/settings/TwoFactorSetup.tsx: the setup screens.  A handler runs  *)
(* without interruption up to its await and from the settled await to its   *)
(* end; clicks and settled awaits take their turns in any order.  The       *)
(* values typed are kept as what the handlers test of them: whether the     *)
(* code has six digits and whether the address is non-blank.  The screens   *)
(* that remove a method or change the default are left out.                 *)
(***************************************************************************)
\* How many handler calls are suspended at once.
MaxUiRequests == 2

\* The props the component is mounted with: what the server page read from
\* the configuration ("" for a null default).
UiProps ==
  { [enabledMethods |-> <<>>, defaultMethod |-> ""],
    [enabledMethods |-> <<"email">>, defaultMethod |-> "email"],
    [enabledMethods |-> <<"totp", "passkey">>, defaultMethod |-> "passkey"] }

\* The useState values before the component is mounted; hist keeps which
\* intermediate steps have succeeded so far.
UiInit ==
  [mounted |-> FALSE, state |-> "overview", status |-> "idle", code |-> FALSE, email |-> FALSE,
   enabledMethods |-> <<>>, defaultMethod |-> "", hist |-> {}]

\* A free slot of uiReqs, and uiLast when no call has settled.  A suspended
\* call keeps the defaultMethod of the render it was made in; abandoned tells
\* whether the user has pressed Back or Cancel on a setup screen since.
UiReqIdle == [handler |-> "", defaultMethod |-> "", abandoned |-> FALSE]
UiIdle == [handler |-> "", ok |-> FALSE, abandoned |-> FALSE]

\* The method a handler enables when its request succeeds ("" for none).
MethodOf(handler) ==
  IF handler = "handlePasskeySetup" THEN "passkey"
  ELSE IF handler = "handleTotpVerify" THEN "totp"
  ELSE IF handler = "handleEmailVerify" THEN "email"
  ELSE ""

\* An updater that appends without looking.
addEnabled_NoLook(prev, method) == Append(prev, method)

\* (prev) => prev.includes(method) ? prev : [...prev, method]
addEnabled(prev, method) ==
  IF method \in Range(prev) THEN prev ELSE Append(prev, method)

\* A handler is called: setStatus("loading") and the fetch it awaits.
callHandler(handler, u) ==
  /\ \E i \in 1..MaxUiRequests :
       /\ uiReqs[i].handler = ""
       /\ \A j \in 1..(i - 1) : uiReqs[j].handler # ""
       /\ uiReqs' = [uiReqs EXCEPT ![i] = [handler |-> handler,
                                           defaultMethod |-> ui.defaultMethod,
                                           abandoned |-> FALSE]]
  /\ ui' = [u EXCEPT !.status = "loading"]
  /\ uiLast' = UiIdle

\* A click that calls no handler.
setOnly(u) ==
  /\ ui' = u
  /\ uiLast' = UiIdle
  /\ UNCHANGED uiReqs

UiMount(props) ==
  /\ ~ui.mounted
  /\ setOnly([ui EXCEPT !.mounted = TRUE, !.enabledMethods = props.enabledMethods,
                        !.defaultMethod = props.defaultMethod])
  /\ UNCHANGED nonUiVars

\* Overview: "Enable 2FA" or "Add another method".
OverviewAdd ==
  /\ ui.mounted /\ ui.state = "overview"
  /\ Len(ui.enabledMethods) < 3
  /\ setOnly([ui EXCEPT !.state = "select-method", !.status = "idle"])
  /\ UNCHANGED nonUiVars

\* Method selection: a card of a method that is not enabled.
SelectMethod(method) ==
  /\ ui.mounted /\ ui.state = "select-method"
  /\ method \notin Range(ui.enabledMethods)
  /\ IF method = "passkey"
     THEN callHandler("handlePasskeySetup", [ui EXCEPT !.state = "passkey-setup"])
     ELSE IF method = "totp"
     THEN callHandler("handleTotpInit", [ui EXCEPT !.state = "totp-setup"])
     ELSE setOnly([ui EXCEPT !.state = "email-enter", !.email = FALSE, !.code = FALSE])
  /\ UNCHANGED nonUiVars

\* Method selection: Cancel.
SelectCancel ==
  /\ ui.mounted /\ ui.state = "select-method"
  /\ setOnly([ui EXCEPT !.state = "overview"])
  /\ UNCHANGED nonUiVars

\* Passkey setup: "Try again", shown when status is "error".
PasskeyTryAgain ==
  /\ ui.state = "passkey-setup" /\ ui.status = "error"
  /\ callHandler("handlePasskeySetup", ui)
  /\ UNCHANGED nonUiVars

\* Back or Cancel on a setup screen: setState("select-method") and nothing
\* else; the calls in flight go on.
BackToSelect ==
  /\ ui.state \in {"passkey-setup", "totp-setup", "totp-verify", "email-enter", "email-verify"}
  /\ ui' = [ui EXCEPT !.state = "select-method"]
  /\ uiReqs' = [i \in 1..MaxUiRequests |->
                  IF uiReqs[i].handler = "" THEN uiReqs[i]
                  ELSE [uiReqs[i] EXCEPT !.abandoned = TRUE]]
  /\ uiLast' = UiIdle
  /\ UNCHANGED nonUiVars

\* The code input (disabled while loading).
TypeCode(sixDigits) ==
  /\ ui.state \in {"totp-verify", "email-verify"} /\ ui.status # "loading"
  /\ setOnly([ui EXCEPT !.code = sixDigits,
                        !.status = IF @ = "error" THEN "idle" ELSE @])
  /\ UNCHANGED nonUiVars

\* The address input (disabled while loading).
TypeEmail(nonBlank) ==
  /\ ui.state = "email-enter" /\ ui.status # "loading"
  /\ setOnly([ui EXCEPT !.email = nonBlank,
                        !.status = IF @ = "error" THEN "idle" ELSE @])
  /\ UNCHANGED nonUiVars

\* "Verify & enable" on the two code screens, "Send verification code" and
\* "Resend code": each button is disabled while loading, and the handlers
\* return at once without a six-digit code or a non-blank address.
ClickVerifyTotp ==
  /\ ui.state = "totp-verify" /\ ui.status # "loading" /\ ui.code
  /\ callHandler("handleTotpVerify", ui)
  /\ UNCHANGED nonUiVars

ClickSendEmail ==
  /\ ui.state = "email-enter" /\ ui.status # "loading" /\ ui.email
  /\ callHandler("handleEmailSend", ui)
  /\ UNCHANGED nonUiVars

ClickResendEmail ==
  /\ ui.state = "email-verify" /\ ui.status # "loading"
  /\ IF ui.email
     THEN callHandler("handleEmailSend", [ui EXCEPT !.code = FALSE])
     ELSE setOnly([ui EXCEPT !.code = FALSE, !.status = "idle"])
  /\ UNCHANGED nonUiVars

ClickVerifyEmail ==
  /\ ui.state = "email-verify" /\ ui.status # "loading" /\ ui.code
  /\ callHandler("handleEmailVerify", ui)
  /\ UNCHANGED nonUiVars

\* Complete: Done.
ClickDone ==
  /\ ui.state = "complete"
  /\ setOnly([ui EXCEPT !.state = "overview", !.code = FALSE])
  /\ UNCHANGED nonUiVars

\* The await of call i settles and the handler runs to its end: with ok, its
\* requests succeeded (for the passkey the two fetches and the ceremony);
\* else the catch block.
UiSettles(i, ok) ==
  /\ uiReqs[i].handler # ""
  /\ LET req == uiReqs[i]
         method == MethodOf(req.handler)
     IN /\ ui' =
             IF ~ok THEN [ui EXCEPT !.status = "error"]
             ELSE IF method # ""
             THEN [ui EXCEPT !.enabledMethods = addEnabled(@, method),
                             !.defaultMethod = IF req.defaultMethod = "" THEN method ELSE @,
                             !.state = "complete", !.status = "idle"]
             ELSE IF req.handler = "handleTotpInit"
             THEN [ui EXCEPT !.state = "totp-verify", !.status = "idle",
                             !.hist = @ \cup {"totp-secret"}]
             ELSE [ui EXCEPT !.state = "email-verify", !.status = "idle",
                             !.hist = @ \cup {"email-sent"}]
        /\ uiLast' = [handler |-> req.handler, ok |-> ok, abandoned |-> req.abandoned]
  /\ uiReqs' = [uiReqs EXCEPT ![i] = UiReqIdle]
  /\ UNCHANGED nonUiVars

UiNext ==
  \/ \E props \in UiProps : UiMount(props)
  \/ OverviewAdd
  \/ \E method \in Methods : SelectMethod(method)
  \/ SelectCancel
  \/ PasskeyTryAgain
  \/ BackToSelect
  \/ \E sixDigits \in BOOLEAN : TypeCode(sixDigits)
  \/ \E nonBlank \in BOOLEAN : TypeEmail(nonBlank)
  \/ ClickVerifyTotp
  \/ ClickSendEmail
  \/ ClickResendEmail
  \/ ClickVerifyEmail
  \/ ClickDone
  \/ \E i \in 1..MaxUiRequests : \E ok \in BOOLEAN : UiSettles(i, ok)

(***************************************************************************)
(* TwoFactorSetup: properties                                              *)
(***************************************************************************)
\* C31: in the setup screens the enabled methods and the default change only
\* when a verify request succeeds: the passkey registration, the TOTP code
\* verify (a secret was generated before), the email code verify (a code was
\* sent to an entered address before); the step adds that one method, or none
\* when it is already listed; a failed request changes neither; and the list
\* of enabled methods never holds a method twice.
C31_EnabledAtEndOfPath ==
  /\ [][ui.mounted =>
          /\ (ui'.enabledMethods # ui.enabledMethods \/ ui'.defaultMethod # ui.defaultMethod) =>
               (/\ uiLast'.handler # "" /\ uiLast'.ok
                /\ MethodOf(uiLast'.handler) \in Methods
                /\ MethodOf(uiLast'.handler) \in Range(ui'.enabledMethods)
                /\ ui'.enabledMethods \in
                     {ui.enabledMethods, Append(ui.enabledMethods, MethodOf(uiLast'.handler))}
                /\ ui'.defaultMethod \in {ui.defaultMethod, MethodOf(uiLast'.handler)}
                /\ (uiLast'.handler = "handleTotpVerify") => ("totp-secret" \in ui.hist)
                /\ (uiLast'.handler = "handleEmailVerify") => ("email-sent" \in ui.hist))
          /\ (uiLast'.handler # "" /\ ~uiLast'.ok) =>
               (/\ ui'.enabledMethods = ui.enabledMethods
                /\ ui'.defaultMethod = ui.defaultMethod
                /\ ui'.state = ui.state)]_vars
  /\ [](\A i, j \in 1..Len(ui.enabledMethods) :
          i # j => ui.enabledMethods[i] # ui.enabledMethods[j])

\* Two passkey registrations were under way at once and both have succeeded:
\* the second found passkey in the list, and all three methods are enabled.
C31_Witness ==
  /\ uiLast.handler = "handlePasskeySetup" /\ uiLast.ok /\ uiLast.abandoned
  /\ ui.state = "complete"
  /\ Len(ui.enabledMethods) = 3
  /\ {"totp-secret", "email-sent"} \subseteq ui.hist
  /\ \A i \in 1..MaxUiRequests : uiReqs[i].handler = ""

\* C37: a call that was in flight when the user pressed Back or Cancel, when
\* it settles, neither shows the totp-verify or the complete screen nor
\* changes the enabled methods or the default.
C37_LateResponseIgnored ==
  [][(uiLast'.handler # "" /\ uiLast'.abandoned /\ uiReqs' # uiReqs) =>
       (/\ (ui'.state \in {"totp-verify", "complete"}) => (ui'.state = ui.state)
        /\ ui'.enabledMethods = ui.enabledMethods
        /\ ui'.defaultMethod = ui.defaultMethod)]_vars

(***************************************************************************)
(* Initial state and specifications                                        *)
(***************************************************************************)
Init ==
  /\ now = 0
  /\ sessions = <<>>
  /\ cleanupTimer = FALSE
  /\ sessTimers = 0
  /\ usedIds = {}
  /\ issued = {}
  /\ deleted = {}
  /\ lastOp = [op |-> "none", arg |-> <<>>]
  /\ sgId = <<>> /\ sgStr = <<>> /\ sgHow = "none" /\ sgRes = [done |-> FALSE]
  /\ csrfIssued = {}
  /\ csrfLast = [op |-> "none", token |-> <<>>, result |-> "none"]
  /\ buckets = <<>>
  /\ rlTimer = None
  /\ rlTimers = 0
  /\ rlHist = <<>>
  /\ rlBurst = <<>>
  /\ rlLast = RlIdle
  /\ twofa = TwofaEnrolled
  /\ pending = <<>>
  /\ passkeys = {d \in DOMAIN TwofaEnrolled : getMethodConfig(TwofaEnrolled[d], "passkey")}
  /\ cookie = None
  /\ disableCalls = 0
  /\ signedOut = {}
  /\ appLast = AppIdle
  /\ tfLast = TfIdle
  /\ disReqs = <<>>
  /\ loginReq = LoginIdle
  /\ uuids = 0
  /\ fnLast = FnIdle
  /\ txReqs = [i \in 1..MaxInFlight |-> TxSlotIdle]
  /\ dailyTotals = <<>>
  /\ txAccepted = <<>>
  /\ txLast = TxIdle
  /\ ui = UiInit
  /\ uiReqs = [i \in 1..MaxUiRequests |-> UiReqIdle]
  /\ uiLast = UiIdle

SessSpec == Init /\ [][SessNext]_vars

\* The session store with its interval timer firing again and again.
SessLiveSpec == Init /\ [][SessNext]_vars /\ WF_vars(SessionSweep)

SignSpec == Init /\ [][SignNext]_vars

CsrfSpec == Init /\ [][CsrfNext]_vars

RlSpec == Init /\ [][RlNext]_vars

TimerSpec == Init /\ [][TimerNext]_vars

RlMixSpec == Init /\ [][RlMixNext]_vars

AppSpec == Init /\ [][AppNext]_vars

TwofaSpec == Init /\ [][TwofaNext]_vars

\* The setup screens of one mounted TwoFactorSetup component.
UiSpec == Init /\ [][UiNext]_vars

\* Disable requests of one user, suspended at their awaits and resumed in any order.
DisableRaceSpec == Init /\ [][DisableRaceNext]_vars

ParSpec == Init /\ [][ParNext]_vars

TxSpec == Init /\ [][TxNext]_vars

\* The login handler with what its timeouts guarantee: a discovery call settles,
\* by its 5-second signal at the latest; the PAR fetches carry no signal and
\* settle only if the remote server answers.
ParLiveSpec ==
  /\ Init
  /\ [][ParNext]_vars
  /\ WF_vars(\E first \in XrpcResponses : \E second \in WellKnownResponses :
               LoginResolveHandle(first, second))
  /\ WF_vars(\E res \in DocResponses : LoginResolvePds(res))
  /\ WF_vars(\E pr \in PrResponses : \E as \in AsResponses : LoginDiscover(pr, as))

FnSpec == Init /\ [][FnNext]_vars

Next ==
  SessNext \/ SignNext \/ CsrfNext \/ RlNext \/ RlMixNext \/ AppNext \/ TwofaNext \/ ParNext
    \/ FnNext \/ TimerNext \/ TxNext \/ DisableRaceNext \/ UiNext

Spec == Init /\ [][Next]_vars

====
